---- MODULE Spec2Model ----
(***************************************************************************)
(* One-port network algebra of lcapy (src/lcapy/oneport.py): the leaf      *)
(* components and their stored quantities, the derived-quantity queries,   *)
(* the Ser/Par constructors and ParSer.simplify with its _combine rules.   *)
(*                                                                         *)
(* A behaviour is one user session: an expression is drawn, constructed    *)
(* (running the constructors' checks) and then queried or simplified.      *)
(* Under SpecReduce the network is reduced (thevenin, norton) or converted *)
(* (expand, s_model, noise_model); under SpecUtils the expression is a     *)
(* call of a function of lcapy.utils (src/lcapy/utils.py).                 *)
(***************************************************************************)
EXTENDS Integers, Sequences, FiniteSets, TLC

VARIABLES
    expr,     \* the expression the user wrote: leaf constructor calls under Ser/Par
    net,      \* the one-port built from expr, NoNet before construction/after failure
    pc,       \* "new" | "built" | "failed", "returned" after a call of lcapy.utils
    op,       \* the last operation applied: "none", "construct", "simplify", a query
    outNet,   \* the one-port returned by the last operation (NoNet if none)
    outVal,   \* the value returned by the last query or call (NoVal if none)
    err,      \* the exception raised by the last operation ("none" if none)
    warn      \* number of 'Warn: redundant component' lines printed by the last operation

vars == <<expr, net, pc, op, outNet, outVal, err, warn>>

----------------------------------------------------------------------------
(* Bounds of the model.                                                    *)

\* component values and source values are drawn from 0..MaxVal
MaxVal == 2
\* explicit initial conditions are drawn from 0..MaxIC (besides "absent")
MaxIC == 1
\* composites of up to MaxArgs children are built from the small alphabet
MaxArgs == 3
\* the expressions handed to term_const and factor_const are polynomials of degree
\* up to MaxDeg with coefficients in 0..MaxVal
MaxDeg == 2
\* the lists handed to merge_common hold items of 1..MaxItem
MaxItem == 3
\* merge_common is handed up to MaxLists lists, of up to two items each
MaxLists == 2

----------------------------------------------------------------------------
(* Polynomials in s with integer coefficients: the sequence of             *)
(* coefficients, constant term first, without trailing zeros (<<>> is 0).  *)

Abs(x) == IF x < 0 THEN -x ELSE x

Max(a, b) == IF a >= b THEN a ELSE b

RECURSIVE Gcd(_, _)
Gcd(a, b) == IF b = 0 THEN Abs(a) ELSE Gcd(b, Abs(a) % Abs(b))

RECURSIVE PTrim(_)
PTrim(p) ==
    IF p = <<>> THEN <<>>
    ELSE IF p[Len(p)] = 0 THEN PTrim(SubSeq(p, 1, Len(p) - 1))
    ELSE p

PCoef(p, j) == IF j >= 1 /\ j <= Len(p) THEN p[j] ELSE 0

PAdd(p, q) == PTrim([j \in 1..Max(Len(p), Len(q)) |-> PCoef(p, j) + PCoef(q, j)])

PScale(c, p) == PTrim([j \in 1..Len(p) |-> c * p[j]])

\* p * s^e
PShift(p, e) == IF p = <<>> THEN <<>> ELSE [j \in 1..(Len(p) + e) |-> PCoef(p, j - e)]

RECURSIVE PConv(_, _, _, _)
\* sum over a = from..Len(p) of p[a] * q[j + 1 - a]
PConv(p, q, j, from) ==
    IF from > Len(p) THEN 0
    ELSE p[from] * PCoef(q, j + 1 - from) + PConv(p, q, j, from + 1)

PMul(p, q) ==
    IF p = <<>> \/ q = <<>> THEN <<>>
    ELSE [j \in 1..(Len(p) + Len(q) - 1) |-> PConv(p, q, j, 1)]

RECURSIVE PContent(_)
\* gcd of the coefficients
PContent(p) == IF p = <<>> THEN 0 ELSE Gcd(Head(p), PContent(Tail(p)))

\* p / c for a c that divides every coefficient
PDivInt(p, c) == [j \in 1..Len(p) |-> p[j] \div c]

\* primitive part, leading coefficient positive
PPrim(p) ==
    IF p = <<>> THEN <<>>
    ELSE LET c == PContent(p)
             sg == IF p[Len(p)] < 0 THEN -1 ELSE 1
         IN PDivInt(p, sg * c)

RECURSIVE PRem(_, _)
\* pseudo-remainder of p by q (q # 0)
PRem(p, q) ==
    IF Len(p) < Len(q) THEN p
    ELSE PRem(PAdd(PScale(q[Len(q)], p),
                   PScale(-p[Len(p)], PShift(q, Len(p) - Len(q)))), q)

RECURSIVE PGcd(_, _)
\* greatest common divisor, primitive
PGcd(p, q) == IF q = <<>> THEN PPrim(p) ELSE PGcd(q, PPrim(PRem(p, q)))

RECURSIVE PQuo(_, _)
\* p / q for a primitive q that divides p
PQuo(p, q) ==
    IF Len(p) < Len(q) THEN <<>>
    ELSE LET c == p[Len(p)] \div q[Len(q)]
             e == Len(p) - Len(q)
         IN PAdd(PShift(<<c>>, e), PQuo(PAdd(p, PScale(-c, PShift(q, e))), q))

----------------------------------------------------------------------------
(* Symbolic values.  A value is a rational function num/den of s in lowest *)
(* terms, or complex infinity ("zoo", what 1/0 evaluates to), or "nan"     *)
(* (0/0, 0*zoo), or an expression that is not a number ("net").  qty is    *)
(* the quantity wrapper class, dom the domain the value was built in.      *)

Val(tag, num, den, qty, dom) ==
    [tag |-> tag, num |-> num, den |-> den, qty |-> qty, dom |-> dom]

NoVal == Val("none", <<>>, <<1>>, "-", "-")

Zoo(qty, dom) == Val("zoo", <<>>, <<>>, qty, dom)
NaN(qty, dom) == Val("nan", <<>>, <<>>, qty, dom)
Zero(qty, dom) == Val("num", <<>>, <<1>>, qty, dom)

\* n1/d1 with the integer factor c (signed like d1's leading coefficient) taken out
RatContent(n1, d1, c, qty, dom) == Val("num", PDivInt(n1, c), PDivInt(d1, c), qty, dom)

\* n1/d1 for coprime polynomials n1 and d1
RatCoprime(n1, d1, qty, dom) ==
    RatContent(n1, d1,
               (IF d1[Len(d1)] < 0 THEN -1 ELSE 1) * Gcd(PContent(n1), PContent(d1)),
               qty, dom)

\* num/den with their greatest common divisor g taken out
RatGcd(num, den, g, qty, dom) == RatCoprime(PQuo(num, g), PQuo(den, g), qty, dom)

\* num/den in lowest terms; den = 0 gives zoo (num # 0) or nan (num = 0)
Rat(num, den, qty, dom) ==
    IF den = <<>> THEN (IF num = <<>> THEN NaN(qty, dom) ELSE Zoo(qty, dom))
    ELSE IF num = <<>> THEN Zero(qty, dom)
    ELSE RatGcd(num, den, PGcd(num, den), qty, dom)

\* expr == 0
IsZero(x) == x.tag = "num" /\ x.num = <<>>

\* the class of the reciprocal of a quantity
InvQty(qty) ==
    CASE qty = "Impedance" -> "Admittance"
      [] qty = "Admittance" -> "Impedance"
      [] OTHER -> qty

\* 1 / x: 1/0 is zoo, 1/zoo is 0
Inv(x) ==
    CASE x.tag = "num" -> Rat(x.den, x.num, InvQty(x.qty), x.dom)
      [] x.tag = "zoo" -> Zero(InvQty(x.qty), x.dom)
      [] OTHER -> [x EXCEPT !.qty = InvQty(x.qty)]

\* a * b, keeping the wrapper fields of a
Mul(a, b) ==
    CASE a.tag = "net" \/ b.tag = "net" -> [a EXCEPT !.tag = "net"]
      [] a.tag = "nan" \/ b.tag = "nan" -> NaN(a.qty, a.dom)
      [] a.tag = "zoo" \/ b.tag = "zoo" ->
              IF IsZero(a) \/ IsZero(b) THEN NaN(a.qty, a.dom) ELSE Zoo(a.qty, a.dom)
      [] OTHER -> Rat(PMul(a.num, b.num), PMul(a.den, b.den), a.qty, a.dom)

\* a / b == a * b^-1
Div(a, b) == Mul(a, Inv(b))

\* a + b, keeping the wrapper fields of a
Add(a, b) ==
    CASE a.tag = "net" \/ b.tag = "net" -> [a EXCEPT !.tag = "net"]
      [] a.tag = "nan" \/ b.tag = "nan" -> NaN(a.qty, a.dom)
      [] a.tag = "zoo" /\ b.tag = "zoo" -> NaN(a.qty, a.dom)
      [] a.tag = "zoo" \/ b.tag = "zoo" -> Zoo(a.qty, a.dom)
      [] OTHER -> Rat(PAdd(PMul(a.num, b.den), PMul(b.num, a.den)),
                      PMul(a.den, b.den), a.qty, a.dom)

\* -a
Neg(a) == IF a.tag = "num" THEN [a EXCEPT !.num = PScale(-1, a.num)] ELSE a

\* the variable s of the Laplace domain
sVar == Val("num", <<0, 1>>, <<1>>, "Expr", "s")

\* s ** alpha for alpha in {0, 1}
sPow(alpha) == IF IsZero(alpha) THEN Val("num", <<1>>, <<1>>, "Expr", "s") ELSE sVar

\* the wrappers: they tag the value with its class and leave the value alone
cExpr(x) == [x EXCEPT !.qty = "cExpr", !.dom = "c"]
Expr(x) == [x EXCEPT !.qty = "Expr", !.dom = "c"]
Impedance(x) == [x EXCEPT !.qty = "Impedance", !.dom = "s"]
Admittance(x) == [x EXCEPT !.qty = "Admittance", !.dom = "s"]
Voltage(x) == [x EXCEPT !.qty = "Voltage"]
Current(x) == [x EXCEPT !.qty = "Current"]
\* a plain integer handed to a wrapper
Raw(x) == Val("num", IF x = 0 THEN <<>> ELSE <<x>>, <<1>>, "-", "raw")
InDom(x, dom) == [x EXCEPT !.dom = dom]

Retag(x, qty) == [x EXCEPT !.qty = qty]

\* Current * Impedance is a Voltage
QMul(a, b) ==
    Retag(Mul(a, b), IF a.qty = "Current" /\ b.qty = "Impedance" THEN "Voltage" ELSE a.qty)

\* Voltage / Impedance is a Current
QDiv(a, b) ==
    Retag(Div(a, b), IF a.qty = "Voltage" /\ b.qty = "Impedance" THEN "Current" ELSE a.qty)

----------------------------------------------------------------------------
(* One-ports.  Every node is a record of the same shape:                   *)
(*   cls    the Python class                                               *)
(*   args   the constructor arguments (children of a Ser/Par)              *)
(*   Z, Y, Voc, Isc   the slots _Z, _Y, _Voc, _Isc (NoVal when None)        *)
(*   val    the component's own value attribute (_R, _G, L, C, K, v0, i0)  *)
(*   ic     L.i0 / C.v0 (0 when absent), alpha of a CPE                    *)
(*   hasic  L.hasic / C.hasic                                              *)

Node(cls, args, Zs, Ys, Vs, Is, val, ic, hasic) ==
    [cls |-> cls, args |-> args, Z |-> Zs, Y |-> Ys, Voc |-> Vs, Isc |-> Is,
     val |-> val, ic |-> ic, hasic |-> hasic]

\* Python's None where a one-port is expected
NoNet == Node("None", <<>>, NoVal, NoVal, NoVal, NoVal, NoVal, NoVal, FALSE)

\* a bare OnePort (also Dummy, ControlledSource): no slot is set
OnePort == Node("OnePort", <<>>, NoVal, NoVal, NoVal, NoVal, NoVal, NoVal, FALSE)

R(Rval) ==
    LET r == cExpr(Rval)
    IN Node("R", <<Rval>>, Impedance(r), NoVal, NoVal, NoVal, r, NoVal, FALSE)

G(Gval) ==
    LET g == cExpr(Gval)
    IN Node("G", <<Gval>>, Inv(Admittance(g)), NoVal, NoVal, NoVal, g, NoVal, FALSE)

\* i0 = NoVal stands for i0=None
L(Lval, i0) ==
    LET hasic == i0 # NoVal
        i00 == cExpr(IF hasic THEN i0 ELSE Raw(0))
        lv == cExpr(Lval)
    IN Node("L", IF hasic THEN <<Lval, i0>> ELSE <<Lval>>,
            Impedance(Mul(sVar, lv)), NoVal,
            Voltage(Neg(InDom(Mul(i00, lv), "s"))), NoVal, lv, i00, hasic)

\* v0 = NoVal stands for v0=None
C(Cval, v0) ==
    LET hasic == v0 # NoVal
        v00 == cExpr(IF hasic THEN v0 ELSE Raw(0))
        cv == cExpr(Cval)
    IN Node("C", IF hasic THEN <<Cval, v0>> ELSE <<Cval>>,
            Impedance(Inv(Mul(sVar, cv))), NoVal,
            Voltage(Div(InDom(v00, "s"), sVar)), NoVal, cv, v00, hasic)

CPE(K, alpha) ==
    LET kv == cExpr(K)
        av == cExpr(alpha)
    IN Node("CPE", <<K, alpha>>, Impedance(Inv(Mul(sPow(av), kv))), NoVal, NoVal, NoVal,
            kv, av, FALSE)

Y(Yval) == Node("Y", <<Yval>>, Inv(Admittance(Yval)), NoVal, NoVal, NoVal,
                NoVal, NoVal, FALSE)

Z(Zval) == Node("Z", <<Zval>>, Impedance(Zval), NoVal, NoVal, NoVal,
                NoVal, NoVal, FALSE)

sV(Vval) == Node("sV", <<Vval>>, NoVal, NoVal, Voltage(InDom(Vval, "s")), NoVal,
                 NoVal, NoVal, FALSE)

V(Vval) == Node("V", <<Vval>>, NoVal, NoVal, Voltage(Vval), NoVal, NoVal, NoVal, FALSE)

Vstep(v0) ==
    LET vv == cExpr(v0)
    IN Node("Vstep", <<v0>>, NoVal, NoVal, Voltage(InDom(vv, "step")), NoVal,
            vv, NoVal, FALSE)

Vdc(v0) ==
    LET vv == cExpr(v0)
    IN Node("Vdc", <<v0>>, NoVal, NoVal, Voltage(InDom(vv, "dc")), NoVal,
            vv, NoVal, FALSE)

\* Vac(V) with phi and omega left at their defaults
Vac(Vval) ==
    LET vv == Expr(Vval)
    IN Node("Vac", <<Vval>>, NoVal, NoVal, Voltage(InDom(vv, "ac")), NoVal,
            vv, NoVal, FALSE)

\* Vnoise(V): args ends with the generated noise id, which is not modelled
Vnoise(Vval) ==
    Node("Vnoise", <<Vval, NoVal>>, NoVal, NoVal, Voltage(InDom(Vval, "n")), NoVal,
         NoVal, NoVal, FALSE)

v(vval) == Node("v", <<vval>>, NoVal, NoVal, Voltage(InDom(vval, "t")), NoVal,
                NoVal, NoVal, FALSE)

sI(Ival) == Node("sI", <<Ival>>, NoVal, NoVal, NoVal, Current(InDom(Ival, "s")),
                 NoVal, NoVal, FALSE)

I(Ival) == Node("I", <<Ival>>, NoVal, NoVal, NoVal, Current(Ival), NoVal, NoVal, FALSE)

Istep(i0) ==
    LET iv == cExpr(i0)
    IN Node("Istep", <<i0>>, NoVal, NoVal, NoVal, Current(InDom(iv, "step")),
            iv, NoVal, FALSE)

Idc(i0) ==
    LET iv == cExpr(i0)
    IN Node("Idc", <<i0>>, NoVal, NoVal, NoVal, Current(InDom(iv, "dc")),
            iv, NoVal, FALSE)

\* Iac(I): phi defaults to 0 (not None), so args is (I, phi)
Iac(Ival) ==
    LET iv == Expr(Ival)
    IN Node("Iac", <<Ival, Raw(0)>>, NoVal, NoVal, NoVal, Current(InDom(iv, "ac")),
            iv, NoVal, FALSE)

Inoise(Ival) ==
    Node("Inoise", <<Ival, NoVal>>, NoVal, NoVal, NoVal, Current(InDom(Ival, "n")),
         NoVal, NoVal, FALSE)

i(ival) == Node("i", <<ival>>, NoVal, NoVal, NoVal, Current(InDom(ival, "t")),
                NoVal, NoVal, FALSE)

CCVS(control, value) ==
    Node("CCVS", <<control, value>>, Impedance(Raw(0)), NoVal, Voltage(Raw(0)), NoVal,
         NoVal, NoVal, FALSE)

CCCS(control, value) ==
    Node("CCCS", <<control, value>>, NoVal, Admittance(Raw(0)), NoVal, Current(Raw(0)),
         NoVal, NoVal, FALSE)

VCVS(value) ==
    Node("VCVS", <<value>>, Impedance(Raw(0)), NoVal, Voltage(Raw(0)), NoVal,
         NoVal, NoVal, FALSE)

VCCS(value) ==
    Node("VCCS", <<value>>, NoVal, Admittance(Raw(0)), NoVal, Current(Raw(0)),
         NoVal, NoVal, FALSE)

W == Node("W", <<>>, Impedance(Raw(0)), NoVal, NoVal, NoVal, NoVal, NoVal, FALSE)

O == Node("O", <<>>, NoVal, Admittance(Raw(0)), NoVal, NoVal, NoVal, NoVal, FALSE)

P == [O EXCEPT !.cls = "P"]

----------------------------------------------------------------------------
(* The derived-quantity queries.  A query returns                          *)
(* [st |-> "ok", val |-> value] or [st |-> "err", err |-> exception].      *)

QOk(val) == [st |-> "ok", val |-> val, err |-> "none"]
QErr(e) == [st |-> "err", val |-> NoVal, err |-> e]

Undefined == "ValueError: _Isc, _Voc, _Y, or _Z undefined"

\* isinstance(arg, ParSer)
IsParSer(x) == x.cls \in {"Ser", "Par"}

\* isinstance(arg, cls): none of the leaf classes tested with isinstance has a subclass
IsInstance(x, cls) == x.cls = cls

RECURSIVE impedance(_)
RECURSIVE admittance(_)

\* OnePort.impedance with the _Voc test moved to the front
OnePortImpedanceVocFirst(x) ==
    IF x.Voc # NoVal THEN QOk(Impedance(Raw(0)))
    ELSE IF x.Z # NoVal THEN QOk(x.Z)
    ELSE IF x.Y # NoVal THEN QOk(Impedance(Inv(x.Y)))
    ELSE IF x.Isc # NoVal THEN QOk(Impedance(Inv(Admittance(Raw(0)))))
    ELSE QErr(Undefined)

\* OnePort.impedance
OnePortImpedance(x) ==
    IF x.Z # NoVal THEN QOk(x.Z)
    ELSE IF x.Y # NoVal THEN QOk(Impedance(Inv(x.Y)))
    ELSE IF x.Voc # NoVal THEN QOk(Impedance(Raw(0)))
    ELSE IF x.Isc # NoVal THEN QOk(Impedance(Inv(Admittance(Raw(0)))))
    ELSE QErr(Undefined)

\* 1 / z wrapped as an Admittance; an exception raised while computing z propagates
AdmittanceOf(z) == IF z.st = "err" THEN z ELSE QOk(Admittance(Inv(z.val)))

\* 1 / y wrapped as an Impedance; an exception raised while computing y propagates
ImpedanceOf(y) == IF y.st = "err" THEN y ELSE QOk(Impedance(Inv(y.val)))

\* OnePort.admittance
OnePortAdmittance(x) ==
    IF x.Y # NoVal THEN QOk(x.Y) ELSE AdmittanceOf(impedance(x))

RECURSIVE SumOver(_, _, _)
\* acc = 0; for arg in self.args: acc += arg.<query>, rs[m] being args[m].<query>
SumOver(rs, m, acc) ==
    IF m > Len(rs) THEN QOk(acc)
    ELSE IF rs[m].st = "err" THEN rs[m]
    ELSE SumOver(rs, m + 1, Add(acc, rs[m].val))

\* the wrapper applied to a sum
Wrapped(r, qty) == IF r.st = "err" THEN r ELSE QOk([r.val EXCEPT !.qty = qty, !.dom = "s"])

\* Ser.impedance
SerImpedance(x) ==
    Wrapped(SumOver([m \in 1..Len(x.args) |-> impedance(x.args[m])], 1, Raw(0)),
            "Impedance")

\* Par.admittance
ParAdmittance(x) ==
    Wrapped(SumOver([m \in 1..Len(x.args) |-> admittance(x.args[m])], 1, Raw(0)),
            "Admittance")

\* Par.impedance as the sum of the children's impedances
ParImpedanceSummed(x) ==
    Wrapped(SumOver([m \in 1..Len(x.args) |-> impedance(x.args[m])], 1, Raw(0)),
            "Impedance")

\* Par.impedance
ParImpedance(x) == ImpedanceOf(ParAdmittance(x))

\* x.impedance, by the class of x
impedance(x) ==
    CASE x.cls = "Ser" -> SerImpedance(x)
      [] x.cls = "Par" -> ParImpedance(x)
      [] OTHER -> OnePortImpedance(x)

\* x.admittance, by the class of x (Ser defines no admittance of its own)
admittance(x) ==
    CASE x.cls = "Par" -> ParAdmittance(x)
      [] OTHER -> OnePortAdmittance(x)

\* self._Isc * self.impedance
VocOfIsc(isc, z) == IF z.st = "err" THEN z ELSE QOk(QMul(isc, z.val))

\* OnePort.Voc with the _Z test moved to the front
VocImpedanceFirst(x) ==
    IF x.Z # NoVal THEN QOk(Voltage(Raw(0)))
    ELSE IF x.Voc # NoVal THEN QOk(x.Voc)
    ELSE IF x.Isc # NoVal THEN VocOfIsc(x.Isc, impedance(x))
    ELSE IF x.Y # NoVal THEN QOk(Current(Raw(0)))
    ELSE QErr(Undefined)

\* OnePort.Voc with a default of zero in place of the final raise
VocDefaultZero(x) ==
    IF x.Voc # NoVal THEN QOk(x.Voc)
    ELSE IF x.Isc # NoVal THEN VocOfIsc(x.Isc, impedance(x))
    ELSE IF x.Y # NoVal THEN QOk(Current(Raw(0)))
    ELSE QOk(Voltage(Raw(0)))

\* OnePort.Voc (a Ser or Par solves its circuit instead, which is not modelled)
Voc(x) ==
    IF x.Voc # NoVal THEN QOk(x.Voc)
    ELSE IF x.Isc # NoVal THEN VocOfIsc(x.Isc, impedance(x))
    ELSE IF x.Z # NoVal THEN QOk(Voltage(Raw(0)))
    ELSE IF x.Y # NoVal THEN QOk(Current(Raw(0)))
    ELSE QErr(Undefined)

\* self.Voc / self.impedance
IscOfVoc(vo, z) ==
    IF vo.st = "err" THEN vo
    ELSE IF z.st = "err" THEN z
    ELSE QOk(QDiv(vo.val, z.val))

\* OnePort.Isc without the test of the stored _Isc
IscDerivedOnly(x) == IscOfVoc(Voc(x), impedance(x))

\* OnePort.Isc
Isc(x) ==
    IF x.Isc # NoVal THEN QOk(x.Isc) ELSE IscOfVoc(Voc(x), impedance(x))

----------------------------------------------------------------------------
(* Construction of composites.  A constructor returns                      *)
(* [st |-> "ok", net |-> node, warn |-> lines printed] or                   *)
(* [st |-> "err", err |-> exception, warn |-> lines printed before it].     *)

Ok(x, w) == [st |-> "ok", net |-> x, err |-> "none", warn |-> w]
Err(e, w) == [st |-> "err", net |-> NoNet, err |-> e, warn |-> w]
\* _combine's "return None"
None(w) == [st |-> "none", net |-> NoNet, err |-> "none", warn |-> w]

SeriesError == "ValueError: Current sources connected in series"
ParallelError == "ValueError: Voltage sources connected in parallel"

\* the double loop of Par.__init__ (src = "V") and Ser.__init__ (src = "I") over the
\* pairs n < m: raise at the first pair of sources, count a warning for a pair with one
RECURSIVE InitScan(_, _, _, _, _)
InitScan(args, src, n, m, w) ==
    IF n > Len(args) THEN [raised |-> FALSE, warn |-> w]
    ELSE IF m > Len(args) THEN InitScan(args, src, n + 1, n + 2, w)
    ELSE IF IsInstance(args[n], src) /\ IsInstance(args[m], src)
    THEN [raised |-> TRUE, warn |-> w]
    ELSE IF IsInstance(args[n], src) \/ IsInstance(args[m], src)
    THEN InitScan(args, src, n, m + 1, w + 1)
    ELSE InitScan(args, src, n, m + 1, w)

Par(args) ==
    LET r == InitScan(args, "V", 1, 2, 0)
    IN IF r.raised THEN Err(ParallelError, r.warn)
       ELSE Ok(Node("Par", args, NoVal, NoVal, NoVal, NoVal, NoVal, NoVal, FALSE), r.warn)

Ser(args) ==
    LET r == InitScan(args, "I", 1, 2, 0)
    IN IF r.raised THEN Err(SeriesError, r.warn)
       ELSE Ok(Node("Ser", args, NoVal, NoVal, NoVal, NoVal, NoVal, NoVal, FALSE), r.warn)

\* self.__class__(*args)
New(cls, args) == IF cls = "Ser" THEN Ser(args) ELSE Par(args)

----------------------------------------------------------------------------
(* ParSer._combine and ParSer.simplify.                                    *)

\* what Voltage(x) / Current(x) holds when x is a one-port rather than an expression
OpaqueVal == [NoVal EXCEPT !.tag = "net", !.dom = "raw"]

ExternalError == "Error: one-port is not an expression"

\* V(arg1 + arg2) and I(arg1 + arg2) of _combine: arg1 + arg2 is OnePort.__add__, that
\* is Ser(arg1, arg2); the source is then built on that one-port.  Whether the
\* expression wrapper accepts a one-port is not decided by this code: extok.
SourceOfSum(cls, arg1, arg2, extok) ==
    LET sum == Ser(<<arg1, arg2>>)
    IN IF sum.st = "err" THEN Err(sum.err, sum.warn)
       ELSE IF ~extok THEN Err(ExternalError, sum.warn)
       ELSE IF cls = "V"
       THEN Ok(Node("V", <<sum.net>>, NoVal, NoVal, Voltage(OpaqueVal), NoVal,
                    NoVal, NoVal, FALSE), sum.warn)
       ELSE Ok(Node("I", <<sum.net>>, NoVal, NoVal, NoVal, Current(OpaqueVal),
                    NoVal, NoVal, FALSE), sum.warn)

\* the mixed-class branch of _combine without its rules for zero R, Z, Y and G
CombineMixedSourcesOnly(cls, arg1, arg2) ==
    IF cls = "Ser"
    THEN IF IsInstance(arg1, "V") /\ IsZero(Voc(arg1).val) THEN Ok(arg2, 0)
         ELSE IF IsInstance(arg2, "V") /\ IsZero(Voc(arg2).val) THEN Ok(arg1, 0)
         ELSE None(0)
    ELSE IF IsInstance(arg1, "I") /\ IsZero(Isc(arg1).val) THEN Ok(arg2, 0)
         ELSE IF IsInstance(arg2, "I") /\ IsZero(Isc(arg2).val) THEN Ok(arg1, 0)
         ELSE None(0)

\* the branch of _combine for operands of different classes
CombineMixed(cls, arg1, arg2) ==
    IF cls = "Ser"
    THEN IF IsInstance(arg1, "V") /\ IsZero(Voc(arg1).val) THEN Ok(arg2, 0)
         ELSE IF IsInstance(arg2, "V") /\ IsZero(Voc(arg2).val) THEN Ok(arg1, 0)
         ELSE IF arg1.cls \in {"R", "Z"} /\ IsZero(impedance(arg1).val) THEN Ok(arg2, 0)
         ELSE IF arg2.cls \in {"R", "Z"} /\ IsZero(impedance(arg2).val) THEN Ok(arg1, 0)
         ELSE None(0)
    ELSE IF IsInstance(arg1, "I") /\ IsZero(Isc(arg1).val) THEN Ok(arg2, 0)
         ELSE IF IsInstance(arg2, "I") /\ IsZero(Isc(arg2).val) THEN Ok(arg1, 0)
         ELSE IF arg1.cls \in {"Y", "G"} /\ IsZero(admittance(arg1).val) THEN Ok(arg2, 0)
         ELSE IF arg2.cls \in {"Y", "G"} /\ IsZero(admittance(arg2).val) THEN Ok(arg1, 0)
         ELSE None(0)

InductorConflict == "ValueError: Series inductors with different initial currents!"
CapacitorConflict == "ValueError: Parallel capacitors with different initial voltages!"

\* a + b where a * b / (a + b) is meant
HarmonicAsSum(a, b) == Add(a, b)

\* the initial conditions differ only if both are given
ICsDifferBothGiven(arg1, arg2) == arg1.hasic /\ arg2.hasic /\ arg1.ic # arg2.ic

\* arg1.i0 != arg2.i0 or arg1.hasic != arg2.hasic (v0 for capacitors)
ICsDiffer(arg1, arg2) == arg1.ic # arg2.ic \/ arg1.hasic # arg2.hasic

\* a * b / (a + b)
Harmonic(a, b) == Div(Mul(a, b), Add(a, b))

\* the same-class branch for a Ser with the Vdc rule keeping only arg1's voltage
CombineSerFirstVdc(arg1, arg2, extok) ==
    CASE IsInstance(arg1, "I") -> None(0)
      [] IsInstance(arg1, "Vdc") -> Ok(Vdc(arg1.val), 0)
      [] IsInstance(arg1, "V") -> SourceOfSum("V", arg1, arg2, extok)
      [] IsInstance(arg1, "R") -> Ok(R(Add(arg1.val, arg2.val)), 0)
      [] IsInstance(arg1, "L") ->
            IF ICsDiffer(arg1, arg2)
            THEN Err(InductorConflict, 0)
            ELSE Ok(L(Add(arg1.val, arg2.val), IF arg1.hasic THEN arg1.ic ELSE NoVal), 0)
      [] IsInstance(arg1, "G") -> Ok(G(Harmonic(arg1.val, arg2.val)), 0)
      [] IsInstance(arg1, "C") ->
            Ok(C(Harmonic(arg1.val, arg2.val),
                 IF arg1.hasic \/ arg2.hasic THEN Add(arg1.ic, arg2.ic) ELSE NoVal), 0)
      [] OTHER -> None(0)

\* the same-class branch for a Ser with the G rule adding the two conductances
CombineSerSumsG(arg1, arg2, extok) ==
    CASE IsInstance(arg1, "I") -> None(0)
      [] IsInstance(arg1, "Vdc") -> Ok(Vdc(Add(arg1.val, arg2.val)), 0)
      [] IsInstance(arg1, "V") -> SourceOfSum("V", arg1, arg2, extok)
      [] IsInstance(arg1, "R") -> Ok(R(Add(arg1.val, arg2.val)), 0)
      [] IsInstance(arg1, "L") ->
            IF ICsDiffer(arg1, arg2)
            THEN Err(InductorConflict, 0)
            ELSE Ok(L(Add(arg1.val, arg2.val), IF arg1.hasic THEN arg1.ic ELSE NoVal), 0)
      [] IsInstance(arg1, "G") -> Ok(G(Add(arg1.val, arg2.val)), 0)
      [] IsInstance(arg1, "C") ->
            Ok(C(Harmonic(arg1.val, arg2.val),
                 IF arg1.hasic \/ arg2.hasic THEN Add(arg1.ic, arg2.ic) ELSE NoVal), 0)
      [] OTHER -> None(0)

\* the branch of _combine for two operands of the same class in a Ser
CombineSer(arg1, arg2, extok) ==
    CASE IsInstance(arg1, "I") -> None(0)
      [] IsInstance(arg1, "Vdc") -> Ok(Vdc(Add(arg1.val, arg2.val)), 0)
      [] IsInstance(arg1, "V") -> SourceOfSum("V", arg1, arg2, extok)
      [] IsInstance(arg1, "R") -> Ok(R(Add(arg1.val, arg2.val)), 0)
      [] IsInstance(arg1, "L") ->
            IF ICsDiffer(arg1, arg2)
            THEN Err(InductorConflict, 0)
            ELSE Ok(L(Add(arg1.val, arg2.val), IF arg1.hasic THEN arg1.ic ELSE NoVal), 0)
      [] IsInstance(arg1, "G") -> Ok(G(Harmonic(arg1.val, arg2.val)), 0)
      [] IsInstance(arg1, "C") ->
            Ok(C(Harmonic(arg1.val, arg2.val),
                 IF arg1.hasic \/ arg2.hasic THEN Add(arg1.ic, arg2.ic) ELSE NoVal), 0)
      [] OTHER -> None(0)

\* the same-class branch for a Par with the L rule keeping only arg1's initial current
CombineParFirstIC(arg1, arg2, extok) ==
    CASE IsInstance(arg1, "V") -> None(0)
      [] IsInstance(arg1, "Idc") -> Ok(Idc(Add(arg1.val, arg2.val)), 0)
      [] IsInstance(arg1, "I") -> SourceOfSum("I", arg1, arg2, extok)
      [] IsInstance(arg1, "G") -> Ok(G(Add(arg1.val, arg2.val)), 0)
      [] IsInstance(arg1, "C") ->
            IF ICsDiffer(arg1, arg2)
            THEN Err(CapacitorConflict, 0)
            ELSE Ok(C(Add(arg1.val, arg2.val), IF arg1.hasic THEN arg1.ic ELSE NoVal), 0)
      [] IsInstance(arg1, "R") -> Ok(R(Harmonic(arg1.val, arg2.val)), 0)
      [] IsInstance(arg1, "L") ->
            Ok(L(Harmonic(arg1.val, arg2.val), IF arg1.hasic THEN arg1.ic ELSE NoVal), 0)
      [] OTHER -> None(0)

\* the branch of _combine for two operands of the same class in a Par
CombinePar(arg1, arg2, extok) ==
    CASE IsInstance(arg1, "V") -> None(0)
      [] IsInstance(arg1, "Idc") -> Ok(Idc(Add(arg1.val, arg2.val)), 0)
      [] IsInstance(arg1, "I") -> SourceOfSum("I", arg1, arg2, extok)
      [] IsInstance(arg1, "G") -> Ok(G(Add(arg1.val, arg2.val)), 0)
      [] IsInstance(arg1, "C") ->
            IF ICsDiffer(arg1, arg2)
            THEN Err(CapacitorConflict, 0)
            ELSE Ok(C(Add(arg1.val, arg2.val), IF arg1.hasic THEN arg1.ic ELSE NoVal), 0)
      [] IsInstance(arg1, "R") -> Ok(R(Harmonic(arg1.val, arg2.val)), 0)
      [] IsInstance(arg1, "L") ->
            Ok(L(Harmonic(arg1.val, arg2.val),
                 IF arg1.hasic \/ arg2.hasic THEN Add(arg1.ic, arg2.ic) ELSE NoVal), 0)
      [] OTHER -> None(0)

\* self._combine(arg1, arg2) with cls = self.__class__
combine(cls, arg1, arg2, extok) ==
    IF arg1.cls # arg2.cls THEN CombineMixed(cls, arg1, arg2)
    ELSE IF cls = "Ser" THEN CombineSer(arg1, arg2, extok)
    ELSE CombinePar(arg1, arg2, extok)

\* the result of a scan loop
Scan(st, args, arg1, new, e, w) ==
    [st |-> st, args |-> args, arg1 |-> arg1, new |-> new, err |-> e, warn |-> w]

RECURSIVE ScanInner(_, _, _, _, _, _, _)

\* the pass of the inner loop that leaves args[m] in the list when the pair combines
ScanInnerStepKeeps(cls, args, arg1, m, new, w, extok, newarg) ==
    CASE newarg.st = "err" -> Scan("err", args, arg1, new, newarg.err, w + newarg.warn)
      [] newarg.st = "none" -> ScanInner(cls, args, arg1, m + 1, new, w, extok)
      [] OTHER -> ScanInner(cls, args, newarg.net, m + 1, TRUE, w + newarg.warn, extok)

\* one pass of the inner loop, newarg being self._combine(arg1, args[m])
ScanInnerStep(cls, args, arg1, m, new, w, extok, newarg) ==
    CASE newarg.st = "err" -> Scan("err", args, arg1, new, newarg.err, w + newarg.warn)
      [] newarg.st = "none" -> ScanInner(cls, args, arg1, m + 1, new, w, extok)
      [] OTHER -> ScanInner(cls, [args EXCEPT ![m] = NoNet], newarg.net, m + 1, TRUE,
                            w + newarg.warn, extok)

\* the inner loop that tries arg1 against every later entry, composites included
ScanInnerComposites(cls, args, arg1, m, new, w, extok) ==
    IF m > Len(args) THEN Scan("ok", args, arg1, new, "none", w)
    ELSE IF args[m] = NoNet
    THEN ScanInner(cls, args, arg1, m + 1, new, w, extok)
    ELSE ScanInnerStep(cls, args, arg1, m, new, w, extok,
                       combine(cls, arg1, args[m], extok))

\* the inner loop of the scan: arg1 = args[n] absorbs every later leaf it combines with
ScanInner(cls, args, arg1, m, new, w, extok) ==
    IF m > Len(args) THEN Scan("ok", args, arg1, new, "none", w)
    ELSE IF args[m] = NoNet \/ IsParSer(args[m])
    THEN ScanInner(cls, args, arg1, m + 1, new, w, extok)
    ELSE ScanInnerStep(cls, args, arg1, m, new, w, extok,
                       combine(cls, arg1, args[m], extok))

RECURSIVE ScanOuter(_, _, _, _, _, _)

\* one pass of the outer loop, r being the result of its inner loop
ScanOuterStep(cls, n, extok, r) ==
    IF r.st = "err" THEN r
    ELSE ScanOuter(cls, [r.args EXCEPT ![n] = r.arg1], n + 1, r.new, r.warn, extok)

\* the outer loop of the scan over n
ScanOuter(cls, args, n, new, w, extok) ==
    IF n > Len(args) THEN Scan("ok", args, NoNet, new, "none", w)
    ELSE IF args[n] = NoNet \/ IsParSer(args[n])
    THEN ScanOuter(cls, args, n + 1, new, w, extok)
    ELSE ScanOuterStep(cls, n, extok,
                       ScanInner(cls, args, args[n], n + 1, new, w, extok))

\* [arg for arg in args if arg is not None]
RECURSIVE DropNone(_)
DropNone(args) ==
    IF args = <<>> THEN <<>>
    ELSE IF Head(args) = NoNet THEN DropNone(Tail(args))
    ELSE <<Head(args)>> \o DropNone(Tail(args))

\* the warnings printed before r was computed are added to r's
AddWarn(r, w) == [r EXCEPT !.warn = @ + w]

RECURSIVE simplify(_, _)
RECURSIVE Flatten(_, _, _, _, _, _, _)

\* the pass of the first loop that appends a simplified child whatever its class
FlattenStepNoSplice(cls, args, m, newargs, w, extok, arg) ==
    IF arg.st = "err" THEN Scan("err", newargs, NoNet, TRUE, arg.err, w + arg.warn)
    ELSE Flatten(cls, args, m + 1, Append(newargs, arg.net), TRUE, w + arg.warn, extok)

\* one pass of the first loop for a composite child, arg being its simplification
FlattenStep(cls, args, m, newargs, w, extok, arg) ==
    IF arg.st = "err" THEN Scan("err", newargs, NoNet, TRUE, arg.err, w + arg.warn)
    ELSE IF arg.net.cls = cls
    THEN Flatten(cls, args, m + 1, newargs \o arg.net.args, TRUE, w + arg.warn, extok)
    ELSE Flatten(cls, args, m + 1, Append(newargs, arg.net), TRUE, w + arg.warn, extok)

\* the first loop of simplify: simplify composite children, splice same-class ones
Flatten(cls, args, m, newargs, new, w, extok) ==
    IF m > Len(args) THEN Scan("ok", newargs, NoNet, new, "none", w)
    ELSE IF IsParSer(args[m])
    THEN FlattenStep(cls, args, m, newargs, w, extok, simplify(args[m], extok))
    ELSE Flatten(cls, args, m + 1, Append(newargs, args[m]), new, w, extok)

\* the end of simplify: the survivors args of a scan that combined something
SimplifyFinal(cls, args, w) ==
    IF Len(args) = 1 THEN Ok(args[1], w) ELSE AddWarn(New(cls, args), w)

\* simplify after its scan sc of self1
SimplifyScanned(cls, self1, sc) ==
    IF sc.st = "err" THEN Err(sc.err, sc.warn)
    ELSE IF ~sc.new THEN Ok(self1, sc.warn)
    ELSE SimplifyFinal(cls, DropNone(sc.args), sc.warn)

\* simplify after the rebuild self1 of the flattened arguments
SimplifyRebuilt(cls, self1, extok) ==
    IF self1.st = "err" THEN self1
    ELSE SimplifyScanned(cls, self1.net,
                         ScanOuter(cls, self1.net.args, 1, FALSE, self1.warn, extok))

\* simplify after its first loop f
SimplifyFlat(self, f, extok) ==
    IF f.st = "err" THEN Err(f.err, f.warn)
    ELSE SimplifyRebuilt(self.cls,
                         IF f.new THEN AddWarn(New(self.cls, f.args), f.warn)
                         ELSE Ok(self, f.warn),
                         extok)

\* ParSer.simplify
simplify(self, extok) ==
    SimplifyFlat(self, Flatten(self.cls, self.args, 1, <<>>, FALSE, 0, extok), extok)

\* the scan that assigns into the node's own argument list
ArgsAfterScanShared(selfargs, scanned) == scanned

\* self.args once the scan has run: the scan assigns into args = list(self.args), a
\* copy, so the tuple of the node is as it was
ArgsAfterScan(selfargs, scanned) == selfargs

RECURSIVE AfterSimplify(_, _)

\* the node self after the first loop, which calls simplify on each composite child
AfterFirstLoop(self, extok) ==
    [self EXCEPT !.args = [m \in 1..Len(self.args) |->
                              IF IsParSer(self.args[m])
                              THEN AfterSimplify(self.args[m], extok)
                              ELSE self.args[m]]]

\* the node self after the scan of its own arguments
AfterScan(self, extok) ==
    [self EXCEPT !.args =
        ArgsAfterScan(self.args,
                      ScanOuter(self.cls, self.args, 1, FALSE, 0, extok).args)]

\* the node self once self.simplify() has returned or raised.  With a composite
\* child the name self is rebound to a new node before the scan, which then works
\* on that node.
AfterSimplify(self, extok) ==
    IF \E m \in 1..Len(self.args) : IsParSer(self.args[m])
    THEN AfterFirstLoop(self, extok)
    ELSE AfterScan(self, extok)

----------------------------------------------------------------------------
(* Voc and Isc of a composite, and the expression methods thevenin and     *)
(* norton call.  ParSer.Voc and ParSer.Isc hand the netlist of the tree to  *)
(* the circuit solver; the solution of a Ser/Par tree is composed here from *)
(* the Thevenin and Norton pairs of the children.                          *)

\* a non-zero value whose expression is not followed
Symbolic(qty, dom) == Val("sym", <<>>, <<>>, qty, dom)

IsSymbolic(x) == x.tag \in {"sym", "net"}

\* expr.is_real of an immittance: it does not depend on s
IsReal(x) == x.tag = "num" /\ Len(x.num) <= 1 /\ Len(x.den) = 1

\* Super.is_superposition: components of more than one domain
IsSuperposition(x) == x.dom = "super"

\* Super.is_ac and Super.is_dc
IsAc(x) == x.dom = "ac"
IsDc(x) == x.dom = "dc"

\* Super.laplace(): the value in the s domain
Laplace(x) ==
    CASE IsZero(x) \/ x.dom = "s" -> InDom(x, "s")
      [] x.dom \in {"dc", "step"} /\ ~IsSymbolic(x) -> InDom(Div(x, sVar), "s")
      [] OTHER -> Symbolic(x.qty, "s")

\* expr.subs(0): the immittance at s = 0
Subs0(x) ==
    IF x.tag # "num" THEN x
    ELSE Rat(PTrim(<<PCoef(x.num, 1)>>), PTrim(<<PCoef(x.den, 1)>>), x.qty, x.dom)

\* expr.subs(j * omega): the immittance at s = j omega
SubsJw(x) ==
    IF x.tag # "num" \/ IsReal(x) THEN x ELSE Symbolic(x.qty, "jw")

\* Super.select(key) on a value of that single key, and Super.__call__(0) on a DC value
Select(x) == InDom(x, "ac")
AtDc(x) == InDom(x, "dc")

\* Voltage.cpt(), Current.cpt(), Impedance.cpt(), Admittance.cpt(): the leaf component
\* of a value
VoltageCpt(x) == V(x)
CurrentCpt(x) == I(x)
ImpedanceCpt(x) == Z(x)
AdmittanceCpt(x) == Y(x)

\* a + b for the sources of a network: values of different domains form a superposition
VAdd(a, b) ==
    CASE IsZero(b) -> a
      [] IsZero(a) -> b
      [] a.dom # b.dom -> Symbolic(a.qty, "super")
      [] IsSymbolic(a) \/ IsSymbolic(b) -> Symbolic(a.qty, a.dom)
      [] OTHER -> Add(a, b)

\* v / z for a source v and an immittance z
VDiv(vv, z) ==
    CASE IsSymbolic(vv) ->
            IF z.tag = "zoo" THEN Zero(vv.qty, vv.dom)
            ELSE IF IsZero(z) THEN Zoo(vv.qty, vv.dom)
            ELSE vv
      [] IsSymbolic(z) -> IF IsZero(vv) THEN vv ELSE Symbolic(vv.qty, vv.dom)
      [] IsReal(z) \/ z.tag # "num" \/ vv.dom = "s" -> Div(vv, z)
      [] vv.dom = "dc" -> Div(vv, Subs0(z))
      [] IsZero(vv) -> vv
      [] OTHER -> Symbolic(vv.qty, vv.dom)

\* the solver has no answer composed from the children
Unsolved == "unsolved"

SolverError == "Error: the circuit has no solution"

RECURSIVE SolveSum(_, _, _, _)
\* the sum of the children's sources rs, each child having a finite immittance zs[m]
SolveSum(rs, zs, m, acc) ==
    IF m > Len(rs) THEN QOk(acc)
    ELSE IF rs[m].st = "err" \/ zs[m].st = "err" THEN QErr(Unsolved)
    ELSE IF zs[m].val.tag # "num" THEN QErr(Unsolved)
    ELSE SolveSum(rs, zs, m + 1, VAdd(acc, rs[m].val))

\* the source vv of a network over its immittance z
Quotient(vv, z) ==
    IF vv.st = "err" \/ z.st = "err" THEN QErr(Unsolved) ELSE QOk(VDiv(vv.val, z.val))

RECURSIVE NetVoc(_)
RECURSIVE NetIsc(_)

\* the open-circuit voltage of a series connection: the sum of the children's
SerVoc(x) ==
    SolveSum([m \in 1..Len(x.args) |-> NetVoc(x.args[m])],
             [m \in 1..Len(x.args) |-> impedance(x.args[m])], 1, Raw(0))

\* the short-circuit current of a parallel connection: the sum of the children's
ParIsc(x) ==
    SolveSum([m \in 1..Len(x.args) |-> NetIsc(x.args[m])],
             [m \in 1..Len(x.args) |-> admittance(x.args[m])], 1, Raw(0))

\* Voc of a node of the tree
NetVoc(x) ==
    CASE x.cls = "Ser" -> SerVoc(x)
      [] x.cls = "Par" -> Quotient(ParIsc(x), admittance(x))
      [] OTHER -> Voc(x)

\* Isc of a node of the tree
NetIsc(x) ==
    CASE x.cls = "Ser" -> Quotient(SerVoc(x), impedance(x))
      [] x.cls = "Par" -> ParIsc(x)
      [] OTHER -> Isc(x)

\* what the solver may do with a network it cannot compose: raise, or return zero or
\* a non-zero value of some domain
ExtOutcomes == {"raise", "zero", "s", "dc"}

\* the solver's answer r as a quantity qty; ext is its outcome where r is unsolved
Solved(r, qty, ext) ==
    IF r.st = "ok" THEN QOk(Retag(r.val, qty))
    ELSE CASE ext = "raise" -> QErr(SolverError)
           [] ext = "zero" -> QOk(Zero(qty, "s"))
           [] OTHER -> QOk(Symbolic(qty, ext))

\* ParSer.Voc and OnePort.Voc
VocOf(x, ext) == IF IsParSer(x) THEN Solved(NetVoc(x), "Voltage", ext) ELSE Voc(x)

\* ParSer.Isc and OnePort.Isc
IscOf(x, ext) == IF IsParSer(x) THEN Solved(NetIsc(x), "Current", ext) ELSE Isc(x)

\* the domain selection that takes the s domain for every superposition
DomainCaseAnyImmittance(src, imm) ==
    IF IsSuperposition(src) THEN 1
    ELSE IF IsAc(src) THEN 2
    ELSE IF IsDc(src) THEN 3
    ELSE 4

\* the branch of the domain selection of thevenin (on Voc, Z) and of norton (on Isc, Y)
DomainCase(src, imm) ==
    IF IsSuperposition(src) /\ ~IsReal(imm) THEN 1
    ELSE IF IsAc(src) THEN 2
    ELSE IF IsDc(src) THEN 3
    ELSE 4

\* V1 (I1) of branch c
DomainSource(c, src) ==
    CASE c = 1 -> Laplace(src)
      [] c = 2 -> Select(src)
      [] c = 3 -> AtDc(src)
      [] OTHER -> src

\* Z1 (Y1) of branch c
DomainImmittance(c, imm) ==
    CASE c = 1 -> imm
      [] c = 2 -> SubsJw(imm)
      [] c = 3 -> Subs0(imm)
      [] OTHER -> imm

\* the lines printed by branch c
DomainWarn(c) == IF c = 1 THEN 1 ELSE 0

\* the returns of thevenin with the tests of Voc and Z swapped
TheveninReturnZFirst(voc, z, z1, v1, w) ==
    IF IsZero(z) THEN Ok(v1, w)
    ELSE IF IsZero(voc) THEN Ok(z1, w)
    ELSE AddWarn(Ser(<<z1, v1>>), w)

\* the returns of thevenin, Z1 and V1 being components already
TheveninReturn(voc, z, z1, v1, w) ==
    IF IsZero(voc) THEN Ok(z1, w)
    ELSE IF IsZero(z) THEN Ok(v1, w)
    ELSE AddWarn(Ser(<<z1, v1>>), w)

\* thevenin once Voc and Z are known, and the branch c
TheveninDomain(voc, z, c, w) ==
    TheveninReturn(voc, z, ImpedanceCpt(DomainImmittance(c, z)),
                   VoltageCpt(DomainSource(c, voc)), w + DomainWarn(c))

\* thevenin after new.Voc and new.impedance, either of which may raise
TheveninOf(voc, z, w) ==
    IF voc.st = "err" THEN Err(voc.err, w)
    ELSE IF z.st = "err" THEN Err(z.err, w)
    ELSE TheveninDomain(voc.val, z.val, DomainCase(voc.val, z.val), w)

\* thevenin after new = self.simplify()
TheveninNew(new, ext) ==
    IF new.st = "err" THEN Err(new.err, new.warn)
    ELSE TheveninOf(VocOf(new.net, ext), impedance(new.net), new.warn)

\* OnePort.thevenin
thevenin(self, extok, ext) == TheveninNew(simplify(self, extok), ext)

\* the returns of norton with the tests of Isc and Y swapped
NortonReturnYFirst(isc, y, y1, i1, w) ==
    IF IsZero(y) THEN Ok(i1, w)
    ELSE IF IsZero(isc) THEN Ok(y1, w)
    ELSE AddWarn(Par(<<y1, i1>>), w)

\* the returns of norton, Y1 and I1 being components already
NortonReturn(isc, y, y1, i1, w) ==
    IF IsZero(isc) THEN Ok(y1, w)
    ELSE IF IsZero(y) THEN Ok(i1, w)
    ELSE AddWarn(Par(<<y1, i1>>), w)

\* norton once Isc and Y are known, and the branch c
NortonDomain(isc, y, c, w) ==
    NortonReturn(isc, y, AdmittanceCpt(DomainImmittance(c, y)),
                 CurrentCpt(DomainSource(c, isc)), w + DomainWarn(c))

\* norton after new.Isc and new.admittance, either of which may raise
NortonOf(isc, y, w) ==
    IF isc.st = "err" THEN Err(isc.err, w)
    ELSE IF y.st = "err" THEN Err(y.err, w)
    ELSE NortonDomain(isc.val, y.val, DomainCase(isc.val, y.val), w)

\* norton that takes the impedance of the simplified network for Y
NortonNewImpedance(new, ext) ==
    IF new.st = "err" THEN Err(new.err, new.warn)
    ELSE NortonOf(IscOf(new.net, ext), impedance(new.net), new.warn)

\* norton after new = self.simplify()
NortonNew(new, ext) ==
    IF new.st = "err" THEN Err(new.err, new.warn)
    ELSE NortonOf(IscOf(new.net, ext), admittance(new.net), new.warn)

\* OnePort.norton
norton(self, extok, ext) == NortonNew(simplify(self, extok), ext)

RECURSIVE Rebuild(_, _, _, _, _)
\* self.__class__(*args), rs[m] being the conversion of self.args[m]: the first
\* exception ends the conversion
Rebuild(cls, rs, m, built, w) ==
    IF m > Len(rs) THEN AddWarn(New(cls, built), w)
    ELSE IF rs[m].st = "err" THEN Err(rs[m].err, w + rs[m].warn)
    ELSE Rebuild(cls, rs, m + 1, Append(built, rs[m].net), w + rs[m].warn)

\* OnePort.__add__: self + OP
Plus(self, OP) == Ser(<<self, OP>>).net

\* FerriteBead.expand on the attributes Rs, Rp, Cp, Lp of the bead
FerriteBeadExpand(Rs, Rp, Cp, Lp) ==
    Plus(R(Rs), Plus(Plus(R(Rp), L(Lp, NoVal)), C(Cp, NoVal)))

\* FerriteBead(Rs, Rp, Cp, Lp): _Z is the impedance of the expansion
FerriteBead(Rs, Rp, Cp, Lp) ==
    Node("FerriteBead", <<Rs, Rp, Cp, Lp>>,
         impedance(FerriteBeadExpand(cExpr(Rs), cExpr(Rp), cExpr(Cp), cExpr(Lp))).val,
         NoVal, NoVal, NoVal, NoVal, NoVal, FALSE)

RECURSIVE expand(_)
\* OnePort.expand, FerriteBead.expand and ParSer.expand
expand(x) ==
    IF IsParSer(x)
    THEN Rebuild(x.cls, [m \in 1..Len(x.args) |-> expand(x.args[m])], 1, <<>>, 0)
    ELSE IF x.cls = "FerriteBead"
    THEN Ok(FerriteBeadExpand(cExpr(x.args[1]), cExpr(x.args[2]), cExpr(x.args[3]),
                              cExpr(x.args[4])), 0)
    ELSE Ok(x, 0)

InternalError == "ValueError: Internal error"

\* OnePort.s_model of a node that stores _Voc, z being its impedance
SModelOfVoc(x, z) ==
    IF IsZero(x.Voc) THEN Ok(Z(z), 0)
    ELSE IF IsZero(z) THEN Ok(V(Laplace(x.Voc)), 0)
    ELSE Ser(<<V(Laplace(x.Voc)), Z(z)>>)

\* OnePort.s_model of a node that stores _Isc and no _Voc, y being its admittance
SModelOfIsc(x, y) ==
    IF IsZero(x.Isc) THEN Ok(Y(y), 0)
    ELSE IF IsZero(y) THEN Ok(I(Laplace(x.Isc)), 0)
    ELSE Par(<<I(Laplace(x.Isc)), Y(y)>>)

\* OnePort.s_model
OnePortSModel(x) ==
    IF x.Voc # NoVal THEN SModelOfVoc(x, impedance(x).val)
    ELSE IF x.Isc # NoVal THEN SModelOfIsc(x, admittance(x).val)
    ELSE IF x.Z # NoVal THEN Ok(Z(x.Z), 0)
    ELSE IF x.Y # NoVal THEN Ok(Y(x.Y), 0)
    ELSE Err(InternalError, 0)

RECURSIVE s_model(_)
\* x.s_model(), by the class of x
s_model(x) ==
    IF IsParSer(x)
    THEN Rebuild(x.cls, [m \in 1..Len(x.args) |-> s_model(x.args[m])], 1, <<>>, 0)
    ELSE OnePortSModel(x)

\* self.R: the resistance of an impedance
Resistance(z) == IF z.tag = "num" /\ ~IsReal(z) THEN Symbolic("Expr", "jw") ELSE z

\* OnePort.noise_model of an R, G, Y or Z whose resistance is R1
NoiseOf(x, R1) ==
    IF ~IsZero(R1) THEN Ser(<<x, Vnoise(Symbolic("Expr", "n"))>>) ELSE Ok(x, 0)

\* OnePort.noise_model
OnePortNoiseModel(x) ==
    IF x.cls \notin {"R", "G", "Y", "Z"} THEN Ok(x, 0)
    ELSE NoiseOf(x, Resistance(impedance(x).val))

RECURSIVE noise_model(_)
\* x.noise_model(), by the class of x
noise_model(x) ==
    IF IsParSer(x)
    THEN Rebuild(x.cls, [m \in 1..Len(x.args) |-> noise_model(x.args[m])], 1, <<>>, 0)
    ELSE OnePortNoiseModel(x)

----------------------------------------------------------------------------
(* The expressions a user writes, and their evaluation.  An expression is  *)
(* [cls, args]: a leaf constructor call on numbers, or Ser/Par on          *)
(* expressions.                                                            *)

Call(cls, args) == [cls |-> cls, args |-> args]

MakeLeaf(cls, a) ==
    CASE cls = "R" -> R(a[1])
      [] cls = "G" -> G(a[1])
      [] cls = "L" -> L(a[1], IF Len(a) > 1 THEN a[2] ELSE NoVal)
      [] cls = "C" -> C(a[1], IF Len(a) > 1 THEN a[2] ELSE NoVal)
      [] cls = "CPE" -> CPE(a[1], a[2])
      [] cls = "Y" -> Y(a[1])
      [] cls = "Z" -> Z(a[1])
      [] cls = "sV" -> sV(a[1])
      [] cls = "V" -> V(a[1])
      [] cls = "Vstep" -> Vstep(a[1])
      [] cls = "Vdc" -> Vdc(a[1])
      [] cls = "Vac" -> Vac(a[1])
      [] cls = "Vnoise" -> Vnoise(a[1])
      [] cls = "v" -> v(a[1])
      [] cls = "sI" -> sI(a[1])
      [] cls = "I" -> I(a[1])
      [] cls = "Istep" -> Istep(a[1])
      [] cls = "Idc" -> Idc(a[1])
      [] cls = "Iac" -> Iac(a[1])
      [] cls = "Inoise" -> Inoise(a[1])
      [] cls = "i" -> i(a[1])
      [] cls = "CCVS" -> CCVS(a[1], a[2])
      [] cls = "CCCS" -> CCCS(a[1], a[2])
      [] cls = "VCVS" -> VCVS(a[1])
      [] cls = "VCCS" -> VCCS(a[1])
      [] cls = "W" -> W
      [] cls = "O" -> O
      [] cls = "P" -> P
      [] cls = "OnePort" -> OnePort
      [] cls = "FerriteBead" -> FerriteBead(a[1], a[2], a[3], a[4])

RECURSIVE Build(_)
RECURSIVE BuildArgs(_, _, _, _)

\* one argument evaluated to r
BuildArgsStep(args, m, built, w, r) ==
    IF r.st = "err" THEN Scan("err", built, NoNet, FALSE, r.err, w + r.warn)
    ELSE BuildArgs(args, m + 1, Append(built, r.net), w + r.warn)

\* the arguments of a call are evaluated left to right; the first exception ends it
BuildArgs(args, m, built, w) ==
    IF m > Len(args) THEN Scan("ok", built, NoNet, FALSE, "none", w)
    ELSE BuildArgsStep(args, m, built, w, Build(args[m]))

\* the composite of class cls on the evaluated arguments a
BuildComposite(cls, a) ==
    IF a.st = "err" THEN Err(a.err, a.warn) ELSE AddWarn(New(cls, a.args), a.warn)

\* evaluate an expression to a one-port
Build(e) ==
    IF e.cls \in {"Ser", "Par"}
    THEN BuildComposite(e.cls, BuildArgs(e.args, 1, <<>>, 0))
    ELSE Ok(MakeLeaf(e.cls, e.args), 0)

Vals == {Raw(x) : x \in 0..MaxVal}
ICs == {Raw(x) : x \in 0..MaxIC}

VoltageSources == {"V", "sV", "Vstep", "Vdc", "Vac", "Vnoise", "v"}
CurrentSources == {"I", "sI", "Istep", "Idc", "Iac", "Inoise", "i"}
OneArgClasses == {"R", "G", "Y", "Z", "VCVS", "VCCS"} \cup VoltageSources \cup CurrentSources

LeafExprs ==
    {Call(c, <<x>>) : c \in OneArgClasses \cup {"L", "C"}, x \in Vals}
    \cup {Call(c, <<x, y>>) : c \in {"L", "C"}, x \in Vals, y \in ICs}
    \cup {Call("CPE", <<x, al>>) : x \in Vals, al \in {Raw(0), Raw(1)}}
    \cup {Call(c, <<Raw(1), Raw(1)>>) : c \in {"CCVS", "CCCS"}}
    \cup {Call(c, <<>>) : c \in {"W", "O", "P", "OnePort"}}

SmallLeafExprs ==
    {Call(c, <<x>>) : c \in {"V", "I", "R"}, x \in {Raw(0), Raw(1)}}
    \cup {Call(c, <<Raw(1)>>) : c \in {"Vdc", "Idc"}}

\* sequences of exactly n elements of S
RECURSIVE SeqsOf(_, _)
SeqsOf(S, n) ==
    IF n = 0 THEN {<<>>}
    ELSE {Append(q, x) : q \in SeqsOf(S, n - 1), x \in S}

\* the leaves whose arguments are all 0 or 1
BasicLeafExprs == {e \in LeafExprs : \A j \in 1..Len(e.args) : e.args[j] \in {Raw(0), Raw(1)}}

\* pairs of leaves: any two basic leaves, and any two leaves of the same class
LeafPairs ==
    {<<a, b>> : a \in BasicLeafExprs, b \in BasicLeafExprs}
    \cup UNION {{<<a, b>> : b \in {e \in LeafExprs : e.cls = a.cls}} : a \in LeafExprs}

\* the leaves of the nested expressions
TinyLeafExprs ==
    {Call("R", <<Raw(1)>>), Call("G", <<Raw(0)>>), Call("V", <<Raw(0)>>),
     Call("I", <<Raw(1)>>)}

\* a composite of a leaf and a composite of two leaves, in either order
NestedExprs ==
    UNION {{Call(o, <<Call(o2, <<a, b>>), c>>), Call(o, <<c, Call(o2, <<a, b>>)>>)} :
           o \in {"Ser", "Par"}, o2 \in {"Ser", "Par"},
           a \in TinyLeafExprs, b \in TinyLeafExprs, c \in TinyLeafExprs}

\* a composite whose only child is a composite of two leaves
WrappedExprs ==
    {Call(o, <<Call(o2, <<a, b>>)>>) :
        o \in {"Ser", "Par"}, o2 \in {"Ser", "Par"},
        a \in TinyLeafExprs, b \in TinyLeafExprs}

\* composites of three immittances, zero-valued Z and Y among them
ImmittanceTriples ==
    {Call(o, a) : o \in {"Ser", "Par"},
                  a \in SeqsOf({Call("Z", <<Raw(0)>>), Call("Y", <<Raw(0)>>),
                                Call("R", <<Raw(1)>>), Call("G", <<Raw(1)>>)}, 3)}

\* the leaves of the composites nested three deep
DeepLeafExprs ==
    {Call("R", <<Raw(1)>>), Call("L", <<Raw(1)>>), Call("C", <<Raw(1)>>),
     Call("G", <<Raw(1)>>)}

\* composites nested three deep, to the left and to the right
DeepExprs ==
    UNION {{Call(o, <<Call(o2, <<Call(o3, <<a, b>>), c>>), d>>),
            Call(o, <<a, Call(o2, <<b, Call(o3, <<c, d>>)>>)>>)} :
           o \in {"Ser", "Par"}, o2 \in {"Ser", "Par"}, o3 \in {"Ser", "Par"},
           a \in DeepLeafExprs, b \in DeepLeafExprs,
           c \in {Call("L", <<Raw(1)>>), Call("C", <<Raw(1)>>)},
           d \in {Call("R", <<Raw(1)>>), Call("G", <<Raw(1)>>)}}

Exprs ==
    LeafExprs
    \cup {Call(o, <<a>>) : o \in {"Ser", "Par"}, a \in BasicLeafExprs}
    \cup {Call(o, a) : o \in {"Ser", "Par"}, a \in LeafPairs}
    \cup {Call(o, a) : o \in {"Ser", "Par"},
                       a \in UNION {SeqsOf(SmallLeafExprs, n) : n \in 3..MaxArgs}}
    \cup NestedExprs
    \cup WrappedExprs
    \cup ImmittanceTriples
    \cup DeepExprs

----------------------------------------------------------------------------
(* The session.                                                            *)

\* the leaves of the networks that are reduced: a source of each domain, with its
\* value, and the passive components
ReduceLeafExprs ==
    {Call("Vdc", <<x>>) : x \in Vals}
    \cup {Call("R", <<x>>) : x \in Vals}
    \cup {Call(c, <<Raw(1)>>) : c \in {"L", "G", "Vac", "V", "Idc", "I"}}
    \cup {Call("L", <<Raw(1), Raw(1)>>), Call("Y", <<Raw(0)>>)}

\* the leaves of the larger networks that are reduced
ReduceSmallExprs ==
    {Call(c, <<Raw(1)>>) : c \in {"L", "Vdc", "Vac"}}

\* ferrite beads of non-zero parameters
BeadExprs ==
    {Call("FerriteBead", <<Raw(a), Raw(b), Raw(c), Raw(d)>>) : a, b, c, d \in 1..MaxVal}

\* pairs of leaves, composites of three to MaxArgs leaves, a pair beside a leaf, and
\* ferrite beads
ReduceExprs ==
    BeadExprs \cup
    {Call(o, <<a, b>>) : o \in {"Ser", "Par"}, a \in ReduceLeafExprs, b \in ReduceLeafExprs}
    \cup {Call(o, a) : o \in {"Ser", "Par"},
                       a \in UNION {SeqsOf(ReduceSmallExprs, n) : n \in 3..MaxArgs}}
    \cup {Call(o, <<Call(o2, <<a, b>>), c>>) :
            o \in {"Ser", "Par"}, o2 \in {"Ser", "Par"},
            a \in ReduceSmallExprs, b \in ReduceSmallExprs,
            c \in {Call("R", <<Raw(1)>>), Call("L", <<Raw(1)>>)}}

Init ==
    /\ expr \in Exprs
    /\ net = NoNet
    /\ pc = "new"
    /\ op = "none"
    /\ outNet = NoNet
    /\ outVal = NoVal
    /\ err = "none"
    /\ warn = 0

\* the outcome r of an operation that returns a one-port
Returns(name, r) ==
    /\ op' = name
    /\ outNet' = r.net
    /\ err' = r.err
    /\ warn' = r.warn
    /\ outVal' = NoVal

\* the evaluation of the expression ends with r
Constructed(r) ==
    /\ pc' = IF r.st = "ok" THEN "built" ELSE "failed"
    /\ net' = r.net
    /\ Returns("construct", r)
    /\ UNCHANGED expr

\* the expression is evaluated: the one-port is returned, or an exception is raised
Construct == pc = "new" /\ Constructed(Build(expr))

\* net.simplify()
Simplify ==
    /\ pc = "built"
    /\ IsParSer(net)
    /\ \E extok \in BOOLEAN :
          /\ Returns("simplify", simplify(net, extok))
          /\ net' = AfterSimplify(net, extok)
    /\ UNCHANGED <<expr, pc>>

\* a query net.<name> that returns r
Query(name, r) ==
    /\ op' = name
    /\ outVal' = r.val
    /\ err' = r.err
    /\ outNet' = NoNet
    /\ warn' = 0
    /\ UNCHANGED <<expr, net, pc>>

\* net.impedance
QImpedance == pc = "built" /\ Query("impedance", impedance(net))

\* net.admittance
QAdmittance == pc = "built" /\ Query("admittance", admittance(net))

\* net.Voc of a leaf
QVoc == pc = "built" /\ ~IsParSer(net) /\ Query("Voc", Voc(net))

\* net.Isc of a leaf
QIsc == pc = "built" /\ ~IsParSer(net) /\ Query("Isc", Isc(net))

\* the outcomes of the solver to consider, r being its answer for the simplified network
ExtFor(new, r) ==
    IF new.st = "ok" /\ IsParSer(new.net) /\ r.st = "err" THEN ExtOutcomes ELSE {"raise"}

\* thevenin returns, new being self.simplify()
TheveninReturns(new) ==
    \E ext \in ExtFor(new, NetVoc(new.net)) : Returns("thevenin", TheveninNew(new, ext))

\* net.thevenin()
Thevenin ==
    /\ pc = "built"
    /\ IsParSer(net)
    /\ \E extok \in BOOLEAN :
          /\ TheveninReturns(simplify(net, extok))
          /\ net' = AfterSimplify(net, extok)
    /\ UNCHANGED <<expr, pc>>

\* norton returns, new being self.simplify()
NortonReturns(new) ==
    \E ext \in ExtFor(new, NetIsc(new.net)) : Returns("norton", NortonNew(new, ext))

\* net.norton()
Norton ==
    /\ pc = "built"
    /\ IsParSer(net)
    /\ \E extok \in BOOLEAN :
          /\ NortonReturns(simplify(net, extok))
          /\ net' = AfterSimplify(net, extok)
    /\ UNCHANGED <<expr, pc>>

\* net.expand()
Expand ==
    /\ pc = "built"
    /\ Returns("expand", expand(net))
    /\ UNCHANGED <<expr, net, pc>>

\* net.s_model()
SModel ==
    /\ pc = "built"
    /\ Returns("s_model", s_model(net))
    /\ UNCHANGED <<expr, net, pc>>

\* net.noise_model()
NoiseModel ==
    /\ pc = "built"
    /\ Returns("noise_model", noise_model(net))
    /\ UNCHANGED <<expr, net, pc>>

Next == Construct \/ Simplify \/ QImpedance \/ QAdmittance \/ QVoc \/ QIsc

Spec == Init /\ [][Next]_vars

\* the session in which networks of sources and immittances are reduced
InitReduce ==
    /\ expr \in ReduceExprs
    /\ net = NoNet
    /\ pc = "new"
    /\ op = "none"
    /\ outNet = NoNet
    /\ outVal = NoVal
    /\ err = "none"
    /\ warn = 0

NextReduce ==
    \/ Construct \/ Simplify \/ Expand \/ SModel \/ NoiseModel
    \/ Thevenin \/ Norton

SpecReduce == InitReduce /\ [][NextReduce]_vars

----------------------------------------------------------------------------
(* lcapy.utils.  An expression handed to term_const and factor_const is a  *)
(* polynomial in the symbol "x" (coefficients, constant term first); var   *)
(* is "x" or another symbol, "y", that the expression does not contain.    *)

\* sympy's S.Zero and S.One
SZero == <<>>
SOne == <<1>>

\* the term c * x^k
Monomial(c, k) == PShift(PTrim(<<c>>), k)

\* expr.as_ordered_terms(): the terms of a sum, highest power first; an expression that
\* is not a sum is its own single term
RECURSIVE TermsFrom(_, _)
TermsFrom(p, k) ==
    IF k < 0 THEN <<>>
    ELSE IF PCoef(p, k + 1) = 0 THEN TermsFrom(p, k - 1)
    ELSE <<Monomial(PCoef(p, k + 1), k)>> \o TermsFrom(p, k - 1)

as_ordered_terms(p) == IF p = <<>> THEN <<SZero>> ELSE TermsFrom(p, Len(p) - 1)

\* expr.as_ordered_factors(): the factors of a product; a number, a power of x and a
\* sum are their own single factor
as_ordered_factors(p) ==
    IF Len(as_ordered_terms(p)) = 1 /\ Len(p) > 1 /\ p[Len(p)] # 1
    THEN <<PTrim(<<p[Len(p)]>>), Monomial(1, Len(p) - 1)>>
    ELSE <<p>>

\* term.has(var)
Has(term, var) == var = "x" /\ Len(term) > 1

\* the loop of term_const over the terms
RECURSIVE TermLoop(_, _, _, _, _)
TermLoop(terms, var, m, const, rest) ==
    IF m > Len(terms) THEN <<const, rest>>
    ELSE IF ~Has(terms[m], var)
    THEN TermLoop(terms, var, m + 1, PAdd(const, terms[m]), rest)
    ELSE TermLoop(terms, var, m + 1, const, PAdd(rest, terms[m]))

\* term_const(expr, var): rest starts at one, const at zero
term_const(p, var) == TermLoop(as_ordered_terms(p), var, 1, SZero, SOne)

\* the loop of factor_const over the factors
RECURSIVE FactorLoop(_, _, _, _, _)
FactorLoop(factors, var, m, const, rest) ==
    IF m > Len(factors) THEN <<const, rest>>
    ELSE IF ~Has(factors[m], var)
    THEN FactorLoop(factors, var, m + 1, PMul(const, factors[m]), rest)
    ELSE FactorLoop(factors, var, m + 1, const, PMul(rest, factors[m]))

\* factor_const(expr, var)
factor_const(p, var) == FactorLoop(as_ordered_factors(p), var, 1, SOne, SOne)

\* set(each)
Range(q) == {q[j] : j \in 1..Len(q)}

\* the keys of neighbours in the order they are inserted: the items in the order in
\* which they first occur in the lists
RECURSIVE KeysOf(_, _)
KeysOf(q, seen) ==
    IF q = <<>> THEN <<>>
    ELSE IF Head(q) \in seen THEN KeysOf(Tail(q), seen)
    ELSE <<Head(q)>> \o KeysOf(Tail(q), seen \cup {Head(q)})

RECURSIVE Concat(_)
Concat(lists) == IF lists = <<>> THEN <<>> ELSE Head(lists) \o Concat(Tail(lists))

\* neighbours[item] once the lists are read: the union of the lists that hold item
Neighbours(lists, item) ==
    UNION {Range(lists[j]) : j \in {jj \in 1..Len(lists) : item \in Range(lists[jj])}}

\* nodes.pop(): which element a set gives up is not fixed; the smallest or the largest
Pop(nodes, last) ==
    CHOOSE n \in nodes : \A o \in nodes : IF last THEN o <= n ELSE n <= o

\* the generator comp, run to its end: [yielded, visited]
RECURSIVE Comp(_, _, _, _, _)

\* comp that does not follow the neighbours of the nodes it takes after the first
CompDirect(lists, nodes, visited, yielded, last) ==
    [yielded |-> yielded \cup nodes \cup (UNION {Neighbours(lists, n) : n \in nodes} \ visited),
     visited |-> visited \cup nodes \cup UNION {Neighbours(lists, n) : n \in nodes}]

\* one pass of the while loop of comp on the node taken from nodes
CompStep(lists, nodes, visited, yielded, last, node) ==
    Comp(lists,
         (nodes \ {node}) \cup (Neighbours(lists, node) \ (visited \cup {node})),
         visited \cup {node}, yielded \cup {node}, last)

Comp(lists, nodes, visited, yielded, last) ==
    IF nodes = {} THEN [yielded |-> yielded, visited |-> visited]
    ELSE CompStep(lists, nodes, visited, yielded, last, Pop(nodes, last))

\* sorted(S)
RECURSIVE Sorted(_)
Sorted(S) ==
    IF S = {} THEN <<>>
    ELSE <<Pop(S, FALSE)>> \o Sorted(S \ {Pop(S, FALSE)})

RECURSIVE MergeLoop(_, _, _, _, _, _)

\* one pass of the loop over the keys for a node not yet visited, c being comp(node)
MergeStep(lists, keys, m, out, last, c) ==
    MergeLoop(lists, keys, m + 1, c.visited, Append(out, Sorted(c.yielded)), last)

\* the loop of merge_common over the keys of neighbours
MergeLoop(lists, keys, m, visited, out, last) ==
    IF m > Len(keys) THEN out
    ELSE IF keys[m] \in visited THEN MergeLoop(lists, keys, m + 1, visited, out, last)
    ELSE MergeStep(lists, keys, m, out, last,
                   Comp(lists, {keys[m]}, visited, {}, last))

\* list(merge_common(lists))
merge_common(lists, last) ==
    MergeLoop(lists, KeysOf(Concat(lists), {}), 1, {}, <<>>, last)

\* the polynomials handed to term_const and factor_const
Polys == {PTrim(q) : q \in SeqsOf(0..MaxVal, MaxDeg + 1)}

\* lists of up to two items
ItemLists ==
    {<<>>} \cup {<<a>> : a \in 1..MaxItem} \cup {<<a, b>> : a, b \in 1..MaxItem}

UtilExprs ==
    {Call(f, <<q, x>>) : f \in {"term_const", "factor_const"}, q \in Polys, x \in {"x", "y"}}
    \cup {Call("merge_common", <<q>>) :
            q \in UNION {SeqsOf(ItemLists, n) : n \in 0..MaxLists}}

InitUtils ==
    /\ expr \in UtilExprs
    /\ net = NoNet
    /\ pc = "new"
    /\ op = "none"
    /\ outNet = NoNet
    /\ outVal = NoVal
    /\ err = "none"
    /\ warn = 0

\* the call expr returns r
Called(r) ==
    /\ op' = expr.cls
    /\ outVal' = r
    /\ pc' = "returned"
    /\ UNCHANGED <<expr, net, outNet, err, warn>>

\* term_const(expr, var)
TermConst ==
    /\ pc = "new" /\ expr.cls = "term_const"
    /\ Called(term_const(expr.args[1], expr.args[2]))

\* factor_const(expr, var)
FactorConst ==
    /\ pc = "new" /\ expr.cls = "factor_const"
    /\ Called(factor_const(expr.args[1], expr.args[2]))

\* list(merge_common(lists))
MergeCommon ==
    /\ pc = "new" /\ expr.cls = "merge_common"
    /\ \E last \in BOOLEAN : Called(merge_common(expr.args[1], last))

NextUtils == TermConst \/ FactorConst \/ MergeCommon

SpecUtils == InitUtils /\ [][NextUtils]_vars

----------------------------------------------------------------------------
(* Properties.  They read the expression the user wrote (expr), the        *)
(* one-port built from it (net) and what the last operation returned.      *)

Queries == {"impedance", "admittance", "Voc", "Isc"}

\* the children of expr are leaf calls
LeafChildren == \A n \in 1..Len(expr.args) : expr.args[n].cls \notin {"Ser", "Par"}

\* expr is o(a, b) for two leaf calls a and b
LeafPair(o) == expr.cls = o /\ Len(expr.args) = 2 /\ LeafChildren

\* expr is o(c(..), c(..)) for the leaf class c
SamePair(o, c) == LeafPair(o) /\ expr.args[1].cls = c /\ expr.args[2].cls = c

\* the integer written as argument j of child n
ArgOf(n, j) == PCoef(expr.args[n].args[j].num, 1)

\* child n is a call c(0) with c in S
ZeroOf(n, S) == expr.args[n].cls \in S /\ expr.args[n].args = <<Raw(0)>>

\* val is the constant p / q: 0 / 0 is nan, p / 0 is zoo
IsRatio(val, p, q) ==
    IF q = 0 THEN val.tag = (IF p = 0 THEN "nan" ELSE "zoo")
    ELSE /\ val.tag = "num"
         /\ Len(val.den) = 1
         /\ Len(val.num) <= 1
         /\ PCoef(val.num, 1) * q = val.den[1] * p

\* none of the four slots of net is set
Unset == net.Z = NoVal /\ net.Y = NoVal /\ net.Voc = NoVal /\ net.Isc = NoVal

\* at least two children of expr are calls of classes in S
HasTwo(S) ==
    \E n, m \in 1..Len(expr.args) :
        n < m /\ expr.args[n].cls \in S /\ expr.args[m].cls \in S

\* C1, as claimed: once evaluated, a Ser whose children include two current sources of
\* the family, or a Par whose children include two voltage sources of the family, has
\* failed at construction and no composite exists.
C1_FamilyRejected ==
    (/\ pc # "new"
     /\ \/ expr.cls = "Ser" /\ HasTwo(CurrentSources)
        \/ expr.cls = "Par" /\ HasTwo(VoltageSources))
    => (pc = "failed" /\ net = NoNet /\ err \in {SeriesError, ParallelError})

\* the impedance query answered by the resolver order: _Z, 1/_Y, 0 for _Voc,
\* 1/Admittance(0) for _Isc, else the error
ImpedanceResolved ==
    IF net.Z # NoVal THEN err = "none" /\ outVal = net.Z
    ELSE IF net.Y # NoVal THEN err = "none" /\ outVal = Impedance(Inv(net.Y))
    ELSE IF net.Voc # NoVal
    THEN err = "none" /\ IsZero(outVal) /\ outVal.qty = "Impedance"
    ELSE IF net.Isc # NoVal
    THEN err = "none" /\ outVal.tag = "zoo" /\ outVal.qty = "Impedance"
    ELSE err = Undefined /\ outVal = NoVal

\* C2, as claimed: the impedance of every node, composite or not, is resolved in the
\* order _Z, 1/_Y, Impedance(0) for _Voc, 1/Admittance(0) for _Isc, else an error.
C2_EveryNode == (op = "impedance") => ImpedanceResolved

\* C2, amended: the impedance of every node that is not a Ser or a Par is resolved in
\* the order _Z, 1/_Y, Impedance(0) for _Voc, 1/Admittance(0) for _Isc, else an error.
C2_Leaf == (op = "impedance" /\ ~IsParSer(net)) => ImpedanceResolved

\* a source that stores only _Voc has been asked its impedance, which is 0
C2_Witness ==
    /\ op = "impedance"
    /\ net.cls = "Vdc"
    /\ net.Z = NoVal /\ net.Y = NoVal /\ net.Voc # NoVal
    /\ IsZero(outVal)

\* C3: the Voc of a leaf is the stored _Voc, else _Isc * impedance, else Voltage(0) if
\* _Z is set, else a zero built as Current(0) if _Y is set, else an error; the passive
\* leaves R, G, Y, Z, CPE and W store only _Z and so have Voc 0.
C3_VocOrder ==
    (op = "Voc") =>
        /\ IF net.Voc # NoVal THEN err = "none" /\ outVal = net.Voc
           ELSE IF net.Isc # NoVal
           THEN err = "none" /\ outVal = QMul(net.Isc, impedance(net).val)
           ELSE IF net.Z # NoVal
           THEN err = "none" /\ IsZero(outVal) /\ outVal.qty = "Voltage"
           ELSE IF net.Y # NoVal
           THEN err = "none" /\ IsZero(outVal) /\ outVal.qty = "Current"
           ELSE err = Undefined /\ outVal = NoVal
        /\ net.cls \in {"R", "G", "Y", "Z", "CPE", "W"} =>
              /\ net.Z # NoVal /\ net.Y = NoVal /\ net.Voc = NoVal /\ net.Isc = NoVal
              /\ IsZero(outVal)

\* an inductor with a nonzero initial current stores _Z and _Voc: its Voc is the
\* stored, nonzero one
C3_Witness ==
    /\ op = "Voc"
    /\ net.cls = "L"
    /\ net.Z # NoVal
    /\ outVal = net.Voc
    /\ ~IsZero(outVal)

\* C4: the Isc of a leaf is the stored _Isc, else Voc / impedance; its admittance is
\* the stored _Y, else 1 / impedance.
C4_IscAdmittance ==
    /\ (op = "Isc") =>
          IF net.Isc # NoVal THEN err = "none" /\ outVal = net.Isc
          ELSE IF Voc(net).st = "err" THEN err = Voc(net).err /\ outVal = NoVal
          ELSE err = "none" /\ outVal = QDiv(Voc(net).val, impedance(net).val)
    /\ (op = "admittance" /\ ~IsParSer(net)) =>
          IF net.Y # NoVal THEN err = "none" /\ outVal = net.Y
          ELSE IF impedance(net).st = "err"
          THEN err = impedance(net).err /\ outVal = NoVal
          ELSE err = "none" /\ outVal = Admittance(Inv(impedance(net).val))

\* an inductor with a nonzero initial current has been asked its Isc, which is derived
C4_Witness ==
    /\ op = "Isc"
    /\ net.cls = "L"
    /\ net.Isc = NoVal
    /\ outVal.tag = "num"
    /\ ~IsZero(outVal)

\* C5, as claimed: on a node with no slot set, composite or not, each of the four
\* queries fails and returns no value.
C5_AnyNode == (pc = "built" /\ Unset /\ op \in Queries) => (err = Undefined /\ outVal = NoVal)

\* C5, amended: a node that is not a Ser or a Par and has no slot set is constructed
\* without error, and each of the four queries on it fails and returns no value.
C5_Leaf ==
    (pc # "new" /\ expr.cls = "OnePort") =>
        /\ pc = "built" /\ Unset
        /\ op = "construct" => err = "none"
        /\ op \in Queries => (err = Undefined /\ outVal = NoVal)

\* a node with no slot set has been built and asked its Voc, which failed
C5_Witness ==
    /\ pc = "built" /\ Unset /\ ~IsParSer(net)
    /\ op = "Voc"
    /\ err = Undefined

\* the classes whose values add up in a composite of class o
Summed(o) == IF o = "Ser" THEN {"R", "L"} ELSE {"C", "G"}

\* C6: simplify of a composite of two passive leaves of the same class, without
\* initial conditions, returns one leaf of that class: in a Ser R and L add up and
\* C and G combine as a*b/(a+b); in a Par C and G add up and R and L combine as
\* a*b/(a+b).
C6_Table ==
    \A o \in {"Ser", "Par"}, c \in {"R", "L", "C", "G"} :
        (/\ op = "simplify"
         /\ SamePair(o, c)
         /\ Len(expr.args[1].args) = 1
         /\ Len(expr.args[2].args) = 1)
        => /\ err = "none"
           /\ outNet.cls = c
           /\ Len(outNet.args) = 1
           /\ ~outNet.hasic
           /\ outNet.val.qty = "cExpr"
           /\ IF c \in Summed(o)
              THEN IsRatio(outNet.val, ArgOf(1, 1) + ArgOf(2, 1), 1)
              ELSE IsRatio(outNet.val, ArgOf(1, 1) * ArgOf(2, 1), ArgOf(1, 1) + ArgOf(2, 1))

\* R(1) | R(2) has been simplified to the single resistor of 2/3
C6_Witness ==
    /\ op = "simplify"
    /\ SamePair("Par", "R")
    /\ ArgOf(1, 1) = 1 /\ ArgOf(2, 1) = 2
    /\ outNet.cls = "R"
    /\ IsRatio(outNet.val, 2, 3)

\* child n was written with an initial condition
HasIC(n) == Len(expr.args[n].args) = 2

\* the initial condition of child n, 0 when absent
ICOf(n) == IF HasIC(n) THEN ArgOf(n, 2) ELSE 0

\* two inductors in series or two capacitors in parallel have been simplified
ICPair == op = "simplify" /\ (SamePair("Ser", "L") \/ SamePair("Par", "C"))

\* the conflict error of the composite's class
Conflict == IF expr.cls = "Ser" THEN InductorConflict ELSE CapacitorConflict

\* the two components were combined into one with the summed value
ICCombined ==
    /\ err = "none"
    /\ outNet.cls = expr.args[1].cls
    /\ IsRatio(outNet.val, ArgOf(1, 1) + ArgOf(2, 1), 1)

C8_FamilyAbsorbed ==
    \A n \in {1, 2} :
        (/\ op = "simplify"
         /\ \/ LeafPair("Ser") /\ ZeroOf(n, VoltageSources)
            \/ LeafPair("Par") /\ ZeroOf(n, CurrentSources)
         /\ expr.args[1].cls # expr.args[2].cls)
        => /\ err = "none"
           /\ \/ outNet = net.args[3 - n]
              \/ outNet = net.args[n] /\ ZeroOf(3 - n, VoltageSources \cup CurrentSources)

\* the classes of zero-valued immittance a composite of class o absorbs
ZeroAbsorbed(o) == IF o = "Ser" THEN {"R", "Z"} ELSE {"G", "Y"}

\* the one class of source a composite of class o absorbs when zero
SourceAbsorbed(o) == IF o = "Ser" THEN {"V"} ELSE {"I"}

\* child n of the simplified two-leaf composite expr is R(0) or Z(0) in a Ser, G(0) or
\* Y(0) in a Par, and the other child is of another class
ZeroBeside(n) ==
    /\ op = "simplify"
    /\ LeafPair("Ser") \/ LeafPair("Par")
    /\ ZeroOf(n, ZeroAbsorbed(expr.cls))
    /\ expr.args[1].cls # expr.args[2].cls

\* C9, as claimed: simplify of R(0) + x, x + R(0), Z(0) + x, x + Z(0), G(0) | x and
\* Y(0) | x, for a leaf x of another class, returns x.
C9_ReturnsOther ==
    \A n \in {1, 2} :
        (ZeroBeside(n) /\ (expr.cls = "Par" => n = 1))
        => (err = "none" /\ outNet = net.args[3 - n])

\* C9, amended: simplify of such a composite returns one leaf: x, unless x is itself a
\* zero-valued V (I in a Par), or x is the left operand and itself a zero-valued R or
\* Z (G or Y in a Par); then the zero R, Z, G or Y beside x is returned.
C9_ReturnsLeaf ==
    \A n \in {1, 2} :
        ZeroBeside(n)
        => /\ err = "none"
           /\ outNet = IF \/ ZeroOf(3 - n, SourceAbsorbed(expr.cls))
                          \/ n = 2 /\ ZeroOf(1, ZeroAbsorbed(expr.cls))
                       THEN net.args[n]
                       ELSE net.args[3 - n]

\* R(0) + V(0) has been simplified: R(0) is returned, not V(0)
C9_Witness ==
    /\ ZeroBeside(1)
    /\ expr.cls = "Ser"
    /\ expr.args[1].cls = "R"
    /\ ZeroOf(2, {"V"})
    /\ outNet = net.args[1]
    /\ outNet.cls = "R"

\* C10, as claimed: simplify of a Ser of two voltage sources of the same class other
\* than Vdc, or of a Par of two current sources of the same class other than Idc,
\* completes without error and returns the composite with both sources.
C10_SourcesKept ==
    (/\ op = "simplify"
     /\ \/ \E c \in VoltageSources \ {"Vdc"} : SamePair("Ser", c)
        \/ \E c \in CurrentSources \ {"Idc"} : SamePair("Par", c))
    => (err = "none" /\ outNet = net)

\* C11: simplify of Vdc(a) + Vdc(b) returns one Vdc of voltage a + b, and simplify of
\* Idc(a) | Idc(b) returns one Idc of current a + b.
C11_DcSum ==
    /\ (op = "simplify" /\ SamePair("Ser", "Vdc")) =>
          /\ err = "none"
          /\ outNet.cls = "Vdc"
          /\ Len(outNet.args) = 1
          /\ IsRatio(outNet.val, ArgOf(1, 1) + ArgOf(2, 1), 1)
          /\ IsRatio(outNet.Voc, ArgOf(1, 1) + ArgOf(2, 1), 1)
          /\ outNet.Voc.dom = "dc"
          /\ outNet.Isc = NoVal
    /\ (op = "simplify" /\ SamePair("Par", "Idc")) =>
          /\ err = "none"
          /\ outNet.cls = "Idc"
          /\ Len(outNet.args) = 1
          /\ IsRatio(outNet.val, ArgOf(1, 1) + ArgOf(2, 1), 1)
          /\ IsRatio(outNet.Isc, ArgOf(1, 1) + ArgOf(2, 1), 1)
          /\ outNet.Isc.dom = "dc"
          /\ outNet.Voc = NoVal

\* Vdc(1) + Vdc(2) has been simplified to the single Vdc of 3
C11_Witness ==
    /\ op = "simplify"
    /\ SamePair("Ser", "Vdc")
    /\ ArgOf(1, 1) = 1 /\ ArgOf(2, 1) = 2
    /\ outNet.cls = "Vdc"
    /\ IsRatio(outNet.val, 3, 1)

\* C12, as claimed: a successful simplify returns a fixed point: simplifying a
\* returned composite again succeeds and returns it unchanged.
C12_FixedPoint ==
    (op = "simplify" /\ err = "none" /\ IsParSer(outNet)) =>
        \A extok \in BOOLEAN :
            /\ simplify(outNet, extok).st = "ok"
            /\ simplify(outNet, extok).net = outNet

\* C13, as claimed: simplify never returns a Ser or Par with exactly one child.
C13_NoSingleChild ==
    (op = "simplify" /\ err = "none") => ~(IsParSer(outNet) /\ Len(outNet.args) = 1)

\* no composite in the tree x has a direct child of its own class
RECURSIVE NoSameOpChild(_)
NoSameOpChild(x) ==
    IsParSer(x) =>
        \A n \in 1..Len(x.args) : x.args[n].cls # x.cls /\ NoSameOpChild(x.args[n])

\* the children of a composite x of class o with same-class children spliced in place,
\* at every level
RECURSIVE Spliced(_)
RECURSIVE SplicedArgs(_, _, _)
SplicedArgs(o, args, n) ==
    IF n > Len(args) THEN <<>>
    ELSE (IF args[n].cls = o THEN Spliced(args[n]).args ELSE <<Spliced(args[n])>>)
         \o SplicedArgs(o, args, n + 1)

Spliced(x) == IF IsParSer(x) THEN [x EXCEPT !.args = SplicedArgs(x.cls, x.args, 1)] ELSE x

\* the leaves of the tree x, left to right
RECURSIVE Leaves(_)
RECURSIVE LeavesOf(_, _)
LeavesOf(args, n) == IF n > Len(args) THEN <<>> ELSE Leaves(args[n]) \o LeavesOf(args, n + 1)

Leaves(x) == IF IsParSer(x) THEN LeavesOf(x.args, 1) ELSE <<x>>

\* the leaves of net are of pairwise different classes, none of them zero-valued:
\* no rule of _combine applies to any two of them
NothingCombines ==
    LET lv == Leaves(net)
    IN /\ \A n, m \in 1..Len(lv) : n # m => lv[n].cls # lv[m].cls
       /\ \A n \in 1..Len(lv) : lv[n].args # <<Raw(0)>>

\* C14: after a successful simplify no composite of the returned tree has a direct
\* child of its own class, and where nothing combines the returned tree is the built
\* one with the same-class children spliced into their parents in place and order.
C14_Flattened ==
    (op = "simplify" /\ err = "none") =>
        /\ NoSameOpChild(outNet)
        /\ (NothingCombines /\ Len(net.args) > 1) => outNet = Spliced(net)

\* a composite nested three deep in one class has been simplified to one level
C14_Witness ==
    /\ op = "simplify" /\ err = "none"
    /\ NothingCombines
    /\ Len(net.args) = 2
    /\ IsParSer(net.args[1]) /\ net.args[1].cls = net.cls
    /\ IsParSer(net.args[1].args[1]) /\ net.args[1].args[1].cls = net.cls
    /\ outNet.cls = net.cls
    /\ Len(outNet.args) = 4
    /\ \A n \in 1..4 : ~IsParSer(outNet.args[n])

\* the sum of the values vals[n..], added to acc from the left
RECURSIVE SumVals(_, _, _)
SumVals(vals, n, acc) ==
    IF n > Len(vals) THEN acc ELSE SumVals(vals, n + 1, Add(acc, vals[n]))

\* the value of x with the class and domain of an immittance
AsImmittance(x, qty) == [x EXCEPT !.qty = qty, !.dom = "s"]

\* all the children of net answer the impedance (admittance) query
ChildrenResolve == \A n \in 1..Len(net.args) : impedance(net.args[n]).st = "ok"

\* the sum of the children's impedances, and of their admittances
ChildImpedanceSum ==
    SumVals([n \in 1..Len(net.args) |-> impedance(net.args[n]).val], 1, Raw(0))

ChildAdmittanceSum ==
    SumVals([n \in 1..Len(net.args) |-> admittance(net.args[n]).val], 1, Raw(0))

\* C20: the impedance of a Ser is the sum of its children's impedances and its
\* admittance is 1 / impedance; the admittance of a Par is the sum of its children's
\* admittances and its impedance is 1 / admittance.  A child's error propagates.
C20_CompositeImmittance ==
    (op \in {"impedance", "admittance"} /\ IsParSer(net)) =>
        IF ~ChildrenResolve THEN err = Undefined /\ outVal = NoVal
        ELSE /\ err = "none"
             /\ outVal =
                  CASE net.cls = "Ser" /\ op = "impedance" ->
                          AsImmittance(ChildImpedanceSum, "Impedance")
                    [] net.cls = "Ser" /\ op = "admittance" ->
                          AsImmittance(Inv(AsImmittance(ChildImpedanceSum, "Impedance")),
                                       "Admittance")
                    [] net.cls = "Par" /\ op = "admittance" ->
                          AsImmittance(ChildAdmittanceSum, "Admittance")
                    [] net.cls = "Par" /\ op = "impedance" ->
                          AsImmittance(Inv(AsImmittance(ChildAdmittanceSum, "Admittance")),
                                       "Impedance")
             /\ (SamePair(net.cls, "R") /\ ArgOf(1, 1) * ArgOf(2, 1) # 0) =>
                   CASE net.cls = "Ser" /\ op = "impedance" ->
                           IsRatio(outVal, ArgOf(1, 1) + ArgOf(2, 1), 1)
                     [] net.cls = "Ser" /\ op = "admittance" ->
                           IsRatio(outVal, 1, ArgOf(1, 1) + ArgOf(2, 1))
                     [] net.cls = "Par" /\ op = "admittance" ->
                           IsRatio(outVal, ArgOf(1, 1) + ArgOf(2, 1),
                                   ArgOf(1, 1) * ArgOf(2, 1))
                     [] net.cls = "Par" /\ op = "impedance" ->
                           IsRatio(outVal, ArgOf(1, 1) * ArgOf(2, 1),
                                   ArgOf(1, 1) + ArgOf(2, 1))

\* R(1) | R(2) has been asked its impedance, which is 2/3
C20_Witness ==
    /\ op = "impedance"
    /\ SamePair("Par", "R")
    /\ ArgOf(1, 1) = 1 /\ ArgOf(2, 1) = 2
    /\ IsRatio(outVal, 2, 3)

\* x is the component of an impedance (admittance): a leaf that stores it, and no source
IsImpedanceCpt(x) == x.cls = "Z" /\ x.Z # NoVal /\ x.Voc = NoVal /\ x.Isc = NoVal
IsAdmittanceCpt(x) == x.cls = "Y" /\ x.Z # NoVal /\ x.Voc = NoVal /\ x.Isc = NoVal

\* x is the component of a voltage (current): a leaf that stores the source alone
IsVoltageCpt(x) == x.cls = "V" /\ x.Voc # NoVal /\ x.Z = NoVal /\ x.Isc = NoVal
IsCurrentCpt(x) == x.cls = "I" /\ x.Isc # NoVal /\ x.Z = NoVal /\ x.Voc = NoVal

\* expr is o(c1(..), c2(..)) on two leaves
PairOf(o, c1, c2) == LeafPair(o) /\ expr.args[1].cls = c1 /\ expr.args[2].cls = c2

\* the shape of the returned network for the Voc and Z of the simplified network
TheveninShape(voc, z) ==
    /\ voc.st = "ok" /\ z.st = "ok"
    /\ IF IsZero(voc.val) THEN IsImpedanceCpt(outNet)
       ELSE IF IsZero(z.val) THEN IsVoltageCpt(outNet)
       ELSE /\ outNet.cls = "Ser"
            /\ Len(outNet.args) = 2
            /\ IsImpedanceCpt(outNet.args[1])
            /\ IsVoltageCpt(outNet.args[2])

TheveninShapeOf(new) ==
    /\ new.st = "ok"
    /\ \E ext \in ExtOutcomes : TheveninShape(VocOf(new.net, ext), impedance(new.net))

\* C16: thevenin() returns the impedance component alone when Voc == 0 (whatever Z),
\* else the voltage component alone when Z == 0, else Ser(impedance component,
\* voltage component), Voc and Z being those of the simplified network.
C16_TheveninShape ==
    (op = "thevenin" /\ err = "none") =>
        /\ \E extok \in BOOLEAN : TheveninShapeOf(simplify(net, extok))
        /\ SamePair("Ser", "R") =>
              IsImpedanceCpt(outNet) /\ IsRatio(outNet.Z, ArgOf(1, 1) + ArgOf(2, 1), 1)
        /\ (SamePair("Ser", "Vdc") /\ ArgOf(1, 1) + ArgOf(2, 1) = 0) =>
              IsImpedanceCpt(outNet) /\ IsRatio(outNet.Z, 0, 1)
        /\ (SamePair("Ser", "Vdc") /\ ArgOf(1, 1) + ArgOf(2, 1) # 0) =>
              IsVoltageCpt(outNet) /\ IsRatio(outNet.Voc, ArgOf(1, 1) + ArgOf(2, 1), 1)
        /\ (PairOf("Ser", "Vdc", "R") /\ ArgOf(1, 1) # 0 /\ ArgOf(2, 1) # 0) =>
              /\ outNet.cls = "Ser" /\ Len(outNet.args) = 2
              /\ IsImpedanceCpt(outNet.args[1]) /\ IsVoltageCpt(outNet.args[2])
              /\ IsRatio(outNet.args[1].Z, ArgOf(2, 1), 1)
              /\ IsRatio(outNet.args[2].Voc, ArgOf(1, 1), 1)

\* Vdc(0) + Vdc(0) has Voc == 0 and Z == 0: thevenin returned the impedance component
C16_Witness ==
    /\ op = "thevenin" /\ err = "none"
    /\ SamePair("Ser", "Vdc") /\ ArgOf(1, 1) = 0 /\ ArgOf(2, 1) = 0
    /\ IsImpedanceCpt(outNet)

\* the shape of the returned network for the Isc and Y of the simplified network
NortonShape(isc, y) ==
    /\ isc.st = "ok" /\ y.st = "ok"
    /\ IF IsZero(isc.val) THEN IsAdmittanceCpt(outNet)
       ELSE IF IsZero(y.val) THEN IsCurrentCpt(outNet)
       ELSE /\ outNet.cls = "Par"
            /\ Len(outNet.args) = 2
            /\ IsAdmittanceCpt(outNet.args[1])
            /\ IsCurrentCpt(outNet.args[2])

NortonShapeOf(new) ==
    /\ new.st = "ok"
    /\ \E ext \in ExtOutcomes : NortonShape(IscOf(new.net, ext), admittance(new.net))

\* C17: norton() returns the admittance component alone when Isc == 0 (whatever Y),
\* else the current-source component alone when Y == 0, else Par(admittance component,
\* current-source component), Isc and Y being those of the simplified network.
C17_NortonShape ==
    (op = "norton" /\ err = "none") =>
        /\ \E extok \in BOOLEAN : NortonShapeOf(simplify(net, extok))
        /\ (SamePair("Par", "R") /\ ArgOf(1, 1) * ArgOf(2, 1) # 0) =>
              /\ IsAdmittanceCpt(outNet)
              /\ IsRatio(outNet.Z, ArgOf(1, 1) * ArgOf(2, 1), ArgOf(1, 1) + ArgOf(2, 1))
        /\ (SamePair("Par", "Idc") /\ ArgOf(1, 1) + ArgOf(2, 1) # 0) =>
              IsCurrentCpt(outNet) /\ IsRatio(outNet.Isc, ArgOf(1, 1) + ArgOf(2, 1), 1)
        /\ (PairOf("Par", "Idc", "G") /\ ArgOf(1, 1) # 0 /\ ArgOf(2, 1) # 0) =>
              /\ outNet.cls = "Par" /\ Len(outNet.args) = 2
              /\ IsAdmittanceCpt(outNet.args[1]) /\ IsCurrentCpt(outNet.args[2])
              /\ IsRatio(outNet.args[1].Z, 1, ArgOf(2, 1))
              /\ IsRatio(outNet.args[2].Isc, ArgOf(1, 1), 1)

\* Idc(1) | G(1) has Isc = 1 and Y = 1: norton returned Par(admittance, current source)
C17_Witness ==
    /\ op = "norton" /\ err = "none"
    /\ PairOf("Par", "Idc", "G")
    /\ outNet.cls = "Par"
    /\ IsAdmittanceCpt(outNet.args[1]) /\ IsCurrentCpt(outNet.args[2])

\* thevenin returned the components of z1 and v1, having printed w lines
Reduced(z1, v1, w) ==
    /\ warn = w
    /\ IsImpedanceCpt(outNet) => outNet.Z = Impedance(z1)
    /\ IsVoltageCpt(outNet) => outNet.Voc = Voltage(v1)
    /\ outNet.cls = "Ser" =>
          outNet.args[1].Z = Impedance(z1) /\ outNet.args[2].Voc = Voltage(v1)

\* the first matching case decides the domain of the result
ReducedByCase(voc, z, w) ==
    IF IsSuperposition(voc) /\ ~IsReal(z) THEN Reduced(z, Laplace(voc), w + 1)
    ELSE IF IsAc(voc) THEN Reduced(SubsJw(z), Select(voc), w)
    ELSE IF IsDc(voc) THEN Reduced(Subs0(z), AtDc(voc), w)
    ELSE Reduced(z, voc, w)

ReducedFrom(voc, z, w) == voc.st = "ok" /\ z.st = "ok" /\ ReducedByCase(voc.val, z.val, w)

ReducedOf(new) ==
    /\ new.st = "ok"
    /\ \E ext \in ExtOutcomes :
          ReducedFrom(VocOf(new.net, ext), impedance(new.net), new.warn)

\* the simplified network has a superposition for Voc and a reactive Z
ReactiveSuperposition(voc, z) ==
    voc.st = "ok" /\ z.st = "ok" /\ IsSuperposition(voc.val) /\ ~IsReal(z.val)

ReactiveSuperpositionOf(new) ==
    /\ new.st = "ok"
    /\ \E ext \in ExtOutcomes :
          ReactiveSuperposition(VocOf(new.net, ext), impedance(new.net))

\* expr is Ser(c1(1), c2(1), c3(1))
SerTriple(c1, c2, c3) ==
    /\ expr.cls = "Ser" /\ Len(expr.args) = 3
    /\ expr.args[1] = Call(c1, <<Raw(1)>>)
    /\ expr.args[2] = Call(c2, <<Raw(1)>>)
    /\ expr.args[3] = Call(c3, <<Raw(1)>>)

\* C18: thevenin() takes the first case that matches: (1) Voc a superposition and Z not
\* real: one warning, Z unchanged, Voc.laplace(); (2) Voc AC: Z at j omega, the phasor
\* of Voc; (3) Voc DC: Z at s = 0, Voc at DC; (4) Voc and Z unchanged.  Case (1)
\* raises nothing.
C18_DomainOrder ==
    op = "thevenin" =>
        /\ err = "none" =>
              \E extok \in BOOLEAN : ReducedOf(simplify(net, extok))
        /\ err # "none" =>
              \A extok \in BOOLEAN : ~ReactiveSuperpositionOf(simplify(net, extok))
        /\ SerTriple("Vdc", "Vac", "L") =>
              /\ err = "none" /\ warn = 1
              /\ outNet.args[1].Z = Impedance(sVar)
              /\ outNet.args[2].Voc = Symbolic("Voltage", "s")
        /\ (PairOf("Ser", "Vdc", "Vac") /\ ArgOf(1, 1) # 0) =>
              /\ err = "none" /\ warn = 0
              /\ IsVoltageCpt(outNet)
              /\ outNet.Voc = Symbolic("Voltage", "super")
        /\ (PairOf("Ser", "Vdc", "L") /\ ArgOf(1, 1) # 0 /\ HasIC(2)) =>
              /\ err = "none" /\ warn = 1
              /\ outNet.args[1].Z = Impedance(sVar)
              /\ outNet.args[2].Voc = Symbolic("Voltage", "s")
        /\ (PairOf("Ser", "Vac", "L") /\ ArgOf(1, 1) # 0 /\ ~HasIC(2)) =>
              /\ warn = 0
              /\ outNet.args[1].Z = Symbolic("Impedance", "s")
              /\ outNet.args[2].Voc.dom = "ac" /\ IsRatio(outNet.args[2].Voc, ArgOf(1, 1), 1)
        /\ (PairOf("Ser", "Vdc", "L") /\ ArgOf(1, 1) # 0 /\ ~HasIC(2)) =>
              /\ warn = 0
              /\ IsRatio(outNet.args[1].Z, 0, 1)
              /\ outNet.args[2].Voc.dom = "dc" /\ IsRatio(outNet.args[2].Voc, ArgOf(1, 1), 1)
        /\ (PairOf("Ser", "V", "L") /\ ArgOf(1, 1) # 0 /\ ~HasIC(2)) =>
              /\ warn = 0
              /\ outNet.args[1].Z = Impedance(sVar)
              /\ IsRatio(outNet.args[2].Voc, ArgOf(1, 1), 1)

\* Vdc(1) + Vac(1) + L(1): a superposition over a reactive impedance was reduced in the
\* s domain, with a warning
C18_Witness ==
    /\ op = "thevenin" /\ err = "none"
    /\ SerTriple("Vdc", "Vac", "L")
    /\ warn = 1
    /\ outNet.cls = "Ser"

\* a and b are the same expression
SameValue(a, b) == a.tag = b.tag /\ a.num = b.num /\ a.den = b.den

\* Vdc(v) + R(r) with r > 0 has been reduced by norton()
NortonOfVdcR == op = "norton" /\ PairOf("Ser", "Vdc", "R") /\ ArgOf(2, 1) > 0

\* x has the Voc and Isc of Vdc(v) + R(r), which are v and v / r
SameDrivingPoint(x, voc, isc) ==
    /\ voc.st = "ok" /\ isc.st = "ok"
    /\ IsRatio(voc.val, ArgOf(1, 1), 1)
    /\ IsRatio(isc.val, ArgOf(1, 1), ArgOf(2, 1))
    /\ SameValue(voc.val, VocOf(net, "raise").val)
    /\ SameValue(isc.val, IscOf(net, "raise").val)

\* the result is the Parallel of the component of 1 / r and the DC current source v / r
ParallelOfVdcR ==
    /\ outNet.cls = "Par" /\ Len(outNet.args) = 2
    /\ IsAdmittanceCpt(outNet.args[1])
    /\ IsRatio(admittance(outNet.args[1]).val, 1, ArgOf(2, 1))
    /\ IsCurrentCpt(outNet.args[2])
    /\ IsRatio(outNet.args[2].Isc, ArgOf(1, 1), ArgOf(2, 1))
    /\ outNet.args[2].Isc.dom = "dc"

\* C19 as stated: for Vdc(v) + R(r), r > 0, norton() returns the Parallel of the
\* conductance 1 / r and the DC current source v / r, and the Voc and Isc of the result
\* are those of the original, v and v / r.
C19_NortonOfVdcR ==
    NortonOfVdcR =>
        /\ err = "none"
        /\ ParallelOfVdcR
        /\ SameDrivingPoint(outNet, VocOf(outNet, "raise"), IscOf(outNet, "raise"))

\* C19 amended: the result is that Parallel when v # 0 and the component of the
\* conductance 1 / r alone when v = 0; in both cases the Voc and Isc of the result are
\* those of the original, v and v / r.
C19_NortonPreserves ==
    NortonOfVdcR =>
        /\ err = "none"
        /\ IF ArgOf(1, 1) # 0 THEN ParallelOfVdcR
           ELSE IsAdmittanceCpt(outNet) /\ IsRatio(admittance(outNet).val, 1, ArgOf(2, 1))
        /\ SameDrivingPoint(outNet, VocOf(outNet, "raise"), IscOf(outNet, "raise"))

\* Vdc(1) + R(2) was reduced to a Parallel whose current source is 1/2
C19_Witness ==
    /\ NortonOfVdcR /\ err = "none"
    /\ ArgOf(1, 1) = 1 /\ ArgOf(2, 1) = 2
    /\ outNet.cls = "Par"
    /\ IsRatio(outNet.args[2].Isc, 1, 2)

SourcesAmong(S) == Cardinality({n \in 1..Len(expr.args) : expr.args[n].cls \in S})

\* expr is a composite of leaves of which exactly one is a source that makes the others
\* redundant: a voltage source in a Par, a current source in a Ser
OneSourceBranch ==
    /\ expr.cls \in {"Ser", "Par"}
    /\ LeafChildren
    /\ Len(expr.args) >= 2
    /\ SourcesAmong(IF expr.cls = "Par" THEN VoltageSources ELSE CurrentSources) = 1

\* C21, as claimed: a composite of leaves in which one source of the family makes the
\* other components redundant is constructed, keeps all its children, and a warning is
\* printed for each of the other components.
C21_RedundantWarned ==
    (op = "construct" /\ OneSourceBranch) =>
        /\ pc = "built"
        /\ net.cls = expr.cls
        /\ Len(net.args) = Len(expr.args)
        /\ warn = Len(expr.args) - 1

\* the number of pairs the scan of a composite of class cls combines, counted from
\* position n of its argument list on: a leaf is tried against every later leaf that
\* is still there, and takes the place of the pair when the two combine
RECURSIVE StepsFrom(_, _, _, _)
RECURSIVE StepsWith(_, _, _, _, _, _)
StepsWith(cls, args, n, arg1, m, extok) ==
    IF m > Len(args) THEN StepsFrom(cls, args, n + 1, extok)
    ELSE IF args[m] = NoNet \/ IsParSer(args[m])
    THEN StepsWith(cls, args, n, arg1, m + 1, extok)
    ELSE IF combine(cls, arg1, args[m], extok).st = "ok"
    THEN 1 + StepsWith(cls, [args EXCEPT ![m] = NoNet], n,
                       combine(cls, arg1, args[m], extok).net, m + 1, extok)
    ELSE StepsWith(cls, args, n, arg1, m + 1, extok)

StepsFrom(cls, args, n, extok) ==
    IF n > Len(args) THEN 0
    ELSE IF args[n] = NoNet \/ IsParSer(args[n]) THEN StepsFrom(cls, args, n + 1, extok)
    ELSE StepsWith(cls, args, n, args[n], n + 1, extok)

\* the number of arguments of the result x of simplifying a composite of class cls
ArgCount(cls, x) == IF x.cls = cls THEN Len(x.args) ELSE 1

\* the children of net are leaves
FlatNet == \A n \in 1..Len(net.args) : ~IsParSer(net.args[n])

\* C22: simplify() of every composite that was built comes to an end, returning or
\* raising; when it returns, its result has no more leaves than the tree it was called
\* on, and for a composite of leaves the result has one argument less for every pair
\* the scan combined.
C22_Terminates ==
    /\ (pc = "built" /\ IsParSer(net)) =>
            \A extok \in BOOLEAN : simplify(net, extok).st \in {"ok", "err"}
    /\ (op = "simplify" /\ err = "none") =>
            /\ Len(Leaves(outNet)) <= Len(Leaves(net))
            /\ FlatNet =>
                  ArgCount(net.cls, outNet)
                      = Len(net.args) - StepsFrom(net.cls, net.args, 1, TRUE)

\* simplify() has combined one pair of a composite of three leaves, which lost one
\* argument
C22_Witness ==
    /\ op = "simplify" /\ err = "none"
    /\ FlatNet
    /\ Len(net.args) = 3
    /\ StepsFrom(net.cls, net.args, 1, TRUE) = 1
    /\ IsParSer(outNet)
    /\ Len(outNet.args) = 2

\* the argument list the scan of net.simplify() works on: the children of net with
\* the composite ones simplified and those of net's class spliced in
FlatArgs == Flatten(net.cls, net.args, 1, <<>>, FALSE, 0, TRUE).args

\* the argument list simplify() returned: a single survivor is returned as it is
ResultArgs == IF outNet.cls = net.cls THEN outNet.args ELSE <<outNet>>

\* the number of positions of S up to n
Rank(S, n) == Cardinality({j \in S : j <= n})

\* res is what is left of flat when the positions outside S are consumed: the entry at
\* a position of S is kept, or is a leaf replaced by the leaf it combined to with a
\* later consumed entry; a consumed entry is a leaf that follows a surviving leaf
Survive(flat, res, S) ==
    /\ Cardinality(S) = Len(res)
    /\ \A n \in S :
          \/ res[Rank(S, n)] = flat[n]
          \/ /\ ~IsParSer(flat[n])
             /\ ~IsParSer(res[Rank(S, n)])
             /\ \E m \in (1..Len(flat)) \ S : m > n
    /\ \A m \in (1..Len(flat)) \ S :
          /\ ~IsParSer(flat[m])
          /\ \E n \in S : n < m /\ ~IsParSer(flat[n])

\* C25: the scan of simplify() merges leaves only.  Every composite of the flattened
\* argument list is an argument of the result, unchanged; the survivors keep their
\* order, and the leaf a pair combined to stands where the first leaf of the pair stood.
C25_LeavesOnly ==
    (op = "simplify" /\ err = "none") =>
        \E S \in SUBSET (1..Len(FlatArgs)) : Survive(FlatArgs, ResultArgs, S)

\* simplify() has combined two leaves that stand beside a composite, which is kept
C25_Witness ==
    /\ op = "simplify" /\ err = "none"
    /\ Len(ResultArgs) < Len(FlatArgs)
    /\ \E n \in 2..Len(FlatArgs) : IsParSer(FlatArgs[n]) /\ FlatArgs[n] = ResultArgs[n - 1]

\* two capacitors in series or two inductors in parallel have been simplified
HarmonicPair == op = "simplify" /\ (SamePair("Ser", "C") \/ SamePair("Par", "L"))

\* C26: C + C and L | L combine to one component of the same class.  It has an initial
\* condition when at least one of the two was written with one, and then carries the
\* sum of the two, an absent one counting as 0: the one that is set when exactly one
\* is.  When neither has one the result has none and a single argument.
C26_ICPropagated ==
    HarmonicPair =>
        /\ err = "none"
        /\ outNet.cls = expr.args[1].cls
        /\ outNet.hasic = (HasIC(1) \/ HasIC(2))
        /\ IsRatio(outNet.ic, ICOf(1) + ICOf(2), 1)
        /\ IF HasIC(1) \/ HasIC(2)
           THEN Len(outNet.args) = 2 /\ IsRatio(outNet.args[2], ICOf(1) + ICOf(2), 1)
           ELSE Len(outNet.args) = 1

\* C(c1) + C(c2, 1) has been simplified to a capacitor with the initial voltage 1
C26_Witness ==
    /\ HarmonicPair
    /\ expr.cls = "Ser"
    /\ ~HasIC(1) /\ HasIC(2) /\ ICOf(2) = 1
    /\ outNet.cls = "C"
    /\ outNet.hasic
    /\ IsRatio(outNet.ic, 1, 1)

\* no two children of the composite x that was built, at any level, have initial
\* conditions for which _combine raises
RECURSIVE NoICConflict(_)
NoICConflict(x) ==
    IsParSer(x) =>
        /\ \A n \in 1..Len(x.args) : NoICConflict(x.args[n])
        /\ \A n, m \in 1..Len(Leaves(x)) :
              (n # m /\ Leaves(x)[n].cls = Leaves(x)[m].cls
                     /\ Leaves(x)[n].cls \in {"L", "C"})
                  => ~ICsDiffer(Leaves(x)[n], Leaves(x)[m])

\* C27, as claimed: simplify() of a composite that was constructed, with no conflict of
\* initial conditions in it, never raises the error of two current sources in series or
\* two voltage sources in parallel.
C27_NoTopologyError ==
    (op = "simplify" /\ NoICConflict(net)) => err \notin {SeriesError, ParallelError}

\* the leaves of the expression e are passive components and zero-valued sources
RECURSIVE PassiveOrZero(_)
PassiveOrZero(e) ==
    IF e.cls \in {"Ser", "Par"}
    THEN \A n \in 1..Len(e.args) : PassiveOrZero(e.args[n])
    ELSE \/ e.cls \in {"R", "L", "C", "G", "Z", "Y"}
         \/ e.cls \in VoltageSources \cup CurrentSources /\ e.args[1] = Raw(0)

\* C28: for a tree of passive components and zero-valued sources, nested in any way,
\* the impedance of what simplify() returns is the impedance of the tree it was called
\* on.
C28_ImpedancePreserved ==
    (op = "simplify" /\ err = "none" /\ PassiveOrZero(expr)) =>
        impedance(outNet) = impedance(net)

\* simplify() has reduced a nested tree of passive components to fewer leaves, with
\* the same impedance, which is neither 0 nor infinite
C28_Witness ==
    /\ op = "simplify" /\ err = "none"
    /\ PassiveOrZero(expr)
    /\ \E n \in 1..Len(net.args) : IsParSer(net.args[n])
    /\ Len(Leaves(outNet)) < Len(Leaves(net))
    /\ impedance(outNet) = impedance(net)
    /\ impedance(net).val.tag = "num"
    /\ ~IsZero(impedance(net).val)

\* the integer written as argument j of the bead
BeadArg(j) == PCoef(expr.args[j].num, 1)

\* x is the leaf of class cls with the value n
LeafOf(x, cls, n) == x.cls = cls /\ IsRatio(x.val, n, 1)

\* x is Series(R(Rs), Parallel(R(Rp), L(Lp), C(Cp))) for the bead's arguments
SeriesOfParallel(x) ==
    /\ x.cls = "Ser"
    /\ Len(x.args) = 2
    /\ LeafOf(x.args[1], "R", BeadArg(1))
    /\ Spliced(x.args[2]).cls = "Par"
    /\ Len(Spliced(x.args[2]).args) = 3
    /\ LeafOf(Spliced(x.args[2]).args[1], "R", BeadArg(2))
    /\ LeafOf(Spliced(x.args[2]).args[2], "L", BeadArg(4))
    /\ LeafOf(Spliced(x.args[2]).args[3], "C", BeadArg(3))

\* C23, as claimed: expand() of FerriteBead(Rs, Rp, Cp, Lp) is R(Rs) in series with the
\* parallel network of R(Rp), L(Lp) and C(Cp), and the impedance stored in the bead is
\* the impedance of that expansion.
C23_BeadExpansion ==
    (op = "expand" /\ expr.cls = "FerriteBead") =>
        /\ err = "none"
        /\ SeriesOfParallel(outNet)
        /\ net.Z = impedance(outNet).val

\* the expression and the symbol handed to term_const or factor_const
UtilExpr == expr.args[1]
UtilVar == expr.args[2]

\* the sum of the terms of the expression that do not contain the symbol
ConstTerms == IF UtilVar = "x" THEN PTrim(<<PCoef(UtilExpr, 1)>>) ELSE UtilExpr

\* the sum of the terms of the expression that contain the symbol
VarTerms == IF UtilVar = "x" THEN PAdd(UtilExpr, PScale(-1, ConstTerms)) ELSE SZero

\* C24, as claimed: term_const returns (const, rest) with const the sum of the terms
\* without var, rest the sum of the terms with var, and const + rest the expression;
\* factor_const returns (const, rest) with const * rest the expression.
C24_Partition ==
    /\ op = "term_const" =>
          /\ outVal[1] = ConstTerms
          /\ outVal[2] = VarTerms
          /\ PAdd(outVal[1], outVal[2]) = UtilExpr
    /\ op = "factor_const" => PMul(outVal[1], outVal[2]) = UtilExpr

\* the factor_const half of C24 alone, which holds
C24_FactorsMultiply ==
    op = "factor_const" =>
        /\ PMul(outVal[1], outVal[2]) = UtilExpr
        /\ ~Has(outVal[1], UtilVar)

\* the lists handed to merge_common
InLists == expr.args[1]

\* the items that occur in the lists
ItemsOf(lists) == UNION {Range(lists[j]) : j \in 1..Len(lists)}

\* the items linked to those of S by a chain of lists that share items
RECURSIVE LinkedTo(_, _)
LinkedTo(S, lists) ==
    IF \E j \in 1..Len(lists) : Range(lists[j]) \cap S # {} /\ ~(Range(lists[j]) \subseteq S)
    THEN LinkedTo(S \cup UNION {Range(lists[j]) :
                                   j \in {jj \in 1..Len(lists) : Range(lists[jj]) \cap S # {}}},
                  lists)
    ELSE S

\* the list q is in strictly increasing order
Increasing(q) == \A j \in 1..(Len(q) - 1) : q[j] < q[j + 1]

\* C29: merge_common returns the items of the lists partitioned into the classes of the
\* relation "linked by a chain of lists that share items": every item is in exactly one
\* returned list, two items are in the same returned list exactly when they are linked,
\* and every returned list is sorted and without duplicates.
C29_Components ==
    op = "merge_common" =>
        /\ ItemsOf(outVal) = ItemsOf(InLists)
        /\ \A a \in ItemsOf(InLists) :
              Cardinality({k \in 1..Len(outVal) : a \in Range(outVal[k])}) = 1
        /\ \A a, b \in ItemsOf(InLists) :
              (\E k \in 1..Len(outVal) : {a, b} \subseteq Range(outVal[k]))
                  <=> b \in LinkedTo({a}, InLists)
        /\ \A k \in 1..Len(outVal) : Increasing(outVal[k])

\* merge_common has put into one list two items that share no list and are linked
\* through a third
C29_Witness ==
    /\ op = "merge_common"
    /\ \E a, b \in ItemsOf(InLists) :
          /\ \A j \in 1..Len(InLists) : ~({a, b} \subseteq Range(InLists[j]))
          /\ \E k \in 1..Len(outVal) : {a, b} \subseteq Range(outVal[k])

====
